---- MODULE Spec2Model ----
(***************************************************************************)
(* DRM/KMS frame presentation backend (src/patches/drm_display.cpp) and    *)
(* its caller (src/patches/interface.cpp).                                 *)
(*                                                                         *)
(* The display device is modelled as a small kernel state (live GEM        *)
(* handles, framebuffers, mappings, the framebuffer bound to the CRTC and  *)
(* a queued page flip).  Every kernel call the code issues is appended to  *)
(* `calls`, the trace of the operation that ran last, together with its    *)
(* result; the result of a call that may fail is an input of the action.   *)
(***************************************************************************)
EXTENDS Integers, Sequences, FiniteSets, TLC

VARIABLES
    hw,      \* the display hardware found behind /dev/dri/card0 (fixed)
    env,     \* the G64_DRM_* environment variables of the process (fixed)
    d,       \* the DrmDisplay session (static drm_display)
    k,       \* kernel-side state of the display device
    g,       \* zero-copy GPU display statics, wsi/processor, gfx_info.fullscreen
             \* and crop_letterbox of interface.cpp
    calls,   \* kernel/GPU calls, discovery steps and pixel writes of the last
             \* operation, in order
    last,    \* the last operation: name, arguments, result
    hist,    \* history of the session (observations only, never read by the code)
    alive,   \* FALSE once the process has been killed by a fault
    fbmem,   \* the pixels of the last blit: its arguments and the destination
             \* buffer's contents (followed only where the blit is run by itself)
    perf_monitor,  \* static PerfMonitor perf_monitor (interface.cpp)
    rdp_device,    \* static RDP_DEVICE rdp_device (interface.cpp)
    callback,      \* static CALL_BACK callback (interface.cpp)
    seen     \* what the last three were seen to do (observations only): the
             \* samples, words and requests handed in and the results handed out

vars == <<hw, env, d, k, g, calls, last, hist, alive, fbmem,
          perf_monitor, rdp_device, callback, seen>>

----------------------------------------------------------------------------
(* Bounds of the model *)

\* successful presents/flips explored per session
MaxFrames == 3

\* kernel calls that fail for a reason outside the program (out of memory,
\* a rejected mode-set or flip, ...) per run
MaxFaults == 1

\* the descriptor number open() hands out
CardFd == 3

\* source frames offered to present: <<width, height>>
SrcSizes == {<<320, 240>>, <<640, 480>>}

\* row strides offered to present for a width w
StridesFor(w) == {w * 4, w * 4 - 4, w * 4 + 64}

----------------------------------------------------------------------------
(* Small helpers *)

\* ids handed out by the kernel's idr: the smallest positive id not in use
FreshId(S) == CHOOSE n \in 1..(Cardinality(S) + 1) :
                  n \notin S /\ \A m \in 1..(n - 1) : m \in S

Call(name, arg, res) == [call |-> name, arg |-> arg, res |-> res]

CallNames(cs) == [i \in 1..Len(cs) |-> cs[i].call]

HasCall(cs, name) == \E i \in 1..Len(cs) : cs[i].call = name

CountCall(cs, name) == Cardinality({i \in 1..Len(cs) : cs[i].call = name})

\* a stride check that is off by one pixel
MinStride_offByOne(width) == 4 * ((width - 1) % 1073741824)

\* uint32_t min_stride = width * 4, i.e. (width * 4) mod 2^32, written as
\* 4 * (width mod 2^30) to stay inside the checker's integers
MinStride(width) == 4 * (width % 1073741824)

----------------------------------------------------------------------------
(* Display hardware: what the enumeration calls report *)

Mode(h, v, pref) == [hdisplay |-> h, vdisplay |-> v, preferred |-> pref]

NoMode == Mode(0, 0, FALSE)

\* an output 1280x720 (two modes flagged preferred) driven by encoder
\* 31 -> CRTC 41, a second connected output behind it, a primary and
\* an overlay plane; the driver has legacy AddFB and no dirty-FB callback, and
\* the GPU imports linear DMA-bufs
HwFull ==
    [connectors |-> << [id |-> 51, connected |-> TRUE,
                        modes |-> << Mode(1920, 1080, FALSE), Mode(1280, 720, TRUE),
                                     Mode(640, 480, TRUE) >>,
                        encoder_id |-> 31, encoders |-> << 31 >>],
                       [id |-> 52, connected |-> TRUE,
                        modes |-> << Mode(1024, 768, TRUE) >>,
                        encoder_id |-> 31, encoders |-> << 31 >>] >>,
     encoders   |-> << [id |-> 31, crtc_id |-> 41, possible_crtcs |-> {0}] >>,
     crtcs      |-> << 41 >>,
     planes     |-> << [plane_id |-> 61, possible_crtcs |-> {0}, type |-> "overlay"],
                       [plane_id |-> 62, possible_crtcs |-> {0}, type |-> "primary"] >>,
     legacy_addfb |-> TRUE, dirtyfb |-> FALSE, dmabuf_import |-> TRUE]

\* a disconnected first connector, a second one whose current encoder drives
\* no CRTC and allows none, no mode flagged preferred, CRTC resolved through
\* the compatibility mask of its second encoder (the second and third CRTC),
\* no plane usable with that CRTC; the driver has only AddFB2, and a dirty-FB
\* callback; the GPU cannot import DMA-bufs
HwNoPlane ==
    [connectors |-> << [id |-> 50, connected |-> FALSE, modes |-> << >>,
                        encoder_id |-> 0, encoders |-> << >>],
                       [id |-> 51, connected |-> TRUE,
                        modes |-> << Mode(1280, 720, FALSE) >>,
                        encoder_id |-> 30, encoders |-> << 30, 31 >>] >>,
     encoders   |-> << [id |-> 30, crtc_id |-> 0, possible_crtcs |-> {}],
                       [id |-> 31, crtc_id |-> 0, possible_crtcs |-> {1, 2}] >>,
     crtcs      |-> << 40, 41, 42 >>,
     planes     |-> << [plane_id |-> 61, possible_crtcs |-> {0}, type |-> "primary"] >>,
     legacy_addfb |-> FALSE, dirtyfb |-> TRUE, dmabuf_import |-> FALSE]

\* nothing plugged in
HwNoConnector ==
    [connectors |-> << [id |-> 51, connected |-> FALSE,
                        modes |-> << Mode(1280, 720, TRUE) >>,
                        encoder_id |-> 31, encoders |-> << 31 >>] >>,
     encoders   |-> << [id |-> 31, crtc_id |-> 41, possible_crtcs |-> {0}] >>,
     crtcs      |-> << 41 >>,
     planes     |-> << >>,
     legacy_addfb |-> TRUE, dirtyfb |-> TRUE, dmabuf_import |-> TRUE]

\* a connected output whose encoder can drive no CRTC
HwNoCrtc ==
    [connectors |-> << [id |-> 51, connected |-> TRUE,
                        modes |-> << Mode(1280, 720, TRUE) >>,
                        encoder_id |-> 0, encoders |-> << 31 >>] >>,
     encoders   |-> << [id |-> 31, crtc_id |-> 0, possible_crtcs |-> {}] >>,
     crtcs      |-> << 41 >>,
     planes     |-> << >>,
     legacy_addfb |-> TRUE, dirtyfb |-> TRUE, dmabuf_import |-> TRUE]

Hardware == {HwFull, HwNoPlane, HwNoConnector, HwNoCrtc}

\* the environment switches: the names of the G64_DRM_* variables that are set
\* to a value other than "" and "0..."
EnvSets == { {}, {"NO_VBLANK_SYNC"},
             {"TEST_PATTERN", "FORCE_MSYNC", "DISABLE_PLANE", "USE_OVERLAY"} }

----------------------------------------------------------------------------
(* Kernel-side state of the device *)

\* the framebuffer another client (the console, the launcher) has bound to the
\* CRTC when the program starts
ConsoleFb == 90

KernelInit(h) ==
    [cap_addfb  |-> h.legacy_addfb,  \* the driver implements legacy AddFB
     cap_dirty  |-> h.dirtyfb,       \* the driver implements the dirty-FB call
     crtcs      |-> {h.crtcs[i] : i \in 1..Len(h.crtcs)},  \* the CRTC ids that exist
     faults     |-> 0,       \* injected call failures so far
     open       |-> FALSE,   \* the process holds an open descriptor
     master     |-> FALSE,   \* DRM master held
     handles    |-> {},      \* live GEM (dumb buffer) handles
     fbs        |-> {},      \* registered framebuffer ids
     maps       |-> {},      \* live CPU mappings
     crtc_fb    |-> ConsoleFb, \* framebuffer being scanned out, 0 = none
     pending_fb |-> 0]       \* framebuffer of a queued page flip, 0 = none

\* a call may still be made to fail
CanFault(ks) == ks.faults < MaxFaults

Fault(ks) == [ks EXCEPT !.faults = @ + 1]

\* drmModeRmFB: a framebuffer that is removed while bound is unbound
KRmFB(ks, fb) ==
    [ks EXCEPT !.fbs = @ \ {fb},
               !.crtc_fb = IF @ = fb THEN 0 ELSE @,
               !.pending_fb = IF @ = fb THEN 0 ELSE @]

\* close(fd): the kernel drops everything the descriptor owned, which unbinds
\* its framebuffers; mappings stay
KClose(ks) ==
    [ks EXCEPT !.open = FALSE, !.master = FALSE, !.handles = {}, !.fbs = {},
               !.crtc_fb = IF @ \in ks.fbs THEN 0 ELSE @,
               !.pending_fb = 0]

----------------------------------------------------------------------------
(* DrmDisplay::DumbBuffer and its allocation *)

\* DumbBuffer with its default member initialisers; map = 0 is nullptr
NoBuffer ==
    [handle |-> 0, fb_id |-> 0, stride |-> 0, size |-> 0, width |-> 0,
     height |-> 0, map |-> 0, legacy_addfb |-> FALSE]

\* what the kernel may answer to the calls of one create_dumb_buffer: every
\* call on a closed descriptor fails, and DRM_IOCTL_MODE_CREATE_DUMB rejects
\* a zero width or height
CreateScripts(fd, ks, width, height) ==
    IF fd < 0 \/ width = 0 \/ height = 0 THEN {"fail_create"}
    ELSE IF CanFault(ks) THEN {"ok", "fail_create", "fail_addfb", "fail_map", "fail_mmap"}
    ELSE {"ok"}

\* a registration that goes straight to the extended call
AddFbCalls_extendedOnly(legacy, h, f) == << Call("AddFB2", f, "ok") >>

\* the registration of a framebuffer that succeeds: drmModeAddFB where the
\* driver has it, else drmModeAddFB2 after drmModeAddFB has failed
AddFbCalls(legacy, h, f) ==
    IF legacy
    THEN << Call("AddFB", f, "ok") >>
    ELSE << Call("AddFB", h, "fail"), Call("AddFB2", f, "ok") >>

create_dumb_buffer(fd, ks, buf, width, height, oc) ==
    IF oc = "fail_create"
    THEN [k |-> IF fd < 0 \/ width = 0 \/ height = 0 THEN ks ELSE Fault(ks),
          buf |-> buf, ok |-> FALSE,
          calls |-> << Call("CREATE_DUMB", 0, "fail") >>]
    ELSE
    LET h  == FreshId(ks.handles)
        k1 == [ks EXCEPT !.handles = @ \cup {h}]
        b1 == [buf EXCEPT !.handle = h, !.stride = width * 4,
                          !.size = width * 4 * height,
                          !.width = width, !.height = height]
        c1 == << Call("CREATE_DUMB", h, "ok") >>
    IN
    IF oc = "fail_addfb"
    THEN [k |-> Fault(k1), buf |-> b1, ok |-> FALSE,
          calls |-> c1 \o << Call("AddFB", h, "fail"), Call("AddFB2", h, "fail") >>]
    ELSE
    LET f  == FreshId(k1.fbs)
        k2 == [k1 EXCEPT !.fbs = @ \cup {f}]
        b2 == [b1 EXCEPT !.fb_id = f, !.legacy_addfb = ks.cap_addfb]
        c2 == c1 \o AddFbCalls(ks.cap_addfb, h, f)
    IN
    IF oc = "fail_map"
    THEN [k |-> Fault(k2), buf |-> b2, ok |-> FALSE,
          calls |-> c2 \o << Call("MAP_DUMB", h, "fail") >>]
    ELSE
    IF oc = "fail_mmap"
    THEN [k |-> Fault(k2), buf |-> [b2 EXCEPT !.map = 0], ok |-> FALSE,
          calls |-> c2 \o << Call("MAP_DUMB", h, "ok"), Call("mmap", 0, "fail") >>]
    ELSE
    LET m  == FreshId(k2.maps)
    IN  [k |-> [k2 EXCEPT !.maps = @ \cup {m}],
         buf |-> [b2 EXCEPT !.map = m], ok |-> TRUE,
         calls |-> c2 \o << Call("MAP_DUMB", h, "ok"), Call("mmap", m, "ok") >>]

\* a destroy that frees the dumb buffer before it removes the framebuffer
destroy_dumb_buffer_freeFirst(fd, ks, buf) ==
    LET c1 == IF buf.map # 0 THEN << Call("munmap", buf.map, "ok") >> ELSE << >>
        k1 == IF buf.map # 0 THEN [ks EXCEPT !.maps = @ \ {buf.map}] ELSE ks
        c2 == IF buf.handle # 0
              THEN << Call("DESTROY_DUMB", buf.handle, IF fd >= 0 THEN "ok" ELSE "fail") >>
              ELSE << >>
        k2 == IF buf.handle # 0 /\ fd >= 0
              THEN [k1 EXCEPT !.handles = @ \ {buf.handle}] ELSE k1
        c3 == IF buf.fb_id # 0
              THEN << Call("RmFB", buf.fb_id, IF fd >= 0 THEN "ok" ELSE "fail") >>
              ELSE << >>
        k3 == IF buf.fb_id # 0 /\ fd >= 0 THEN KRmFB(k2, buf.fb_id) ELSE k2
    IN  [k |-> k3,
         buf |-> [buf EXCEPT !.map = 0, !.fb_id = 0, !.handle = 0],
         calls |-> c1 \o c2 \o c3]

destroy_dumb_buffer(fd, ks, buf) ==
    LET c1 == IF buf.map # 0 THEN << Call("munmap", buf.map, "ok") >> ELSE << >>
        k1 == IF buf.map # 0 THEN [ks EXCEPT !.maps = @ \ {buf.map}] ELSE ks
        c2 == IF buf.fb_id # 0
              THEN << Call("RmFB", buf.fb_id, IF fd >= 0 THEN "ok" ELSE "fail") >>
              ELSE << >>
        k2 == IF buf.fb_id # 0 /\ fd >= 0 THEN KRmFB(k1, buf.fb_id) ELSE k1
        c3 == IF buf.handle # 0
              THEN << Call("DESTROY_DUMB", buf.handle, IF fd >= 0 THEN "ok" ELSE "fail") >>
              ELSE << >>
        k3 == IF buf.handle # 0 /\ fd >= 0
              THEN [k2 EXCEPT !.handles = @ \ {buf.handle}] ELSE k2
    IN  [k |-> k3,
         buf |-> [buf EXCEPT !.map = 0, !.fb_id = 0, !.handle = 0],
         calls |-> c1 \o c2 \o c3]

----------------------------------------------------------------------------
(* Resource discovery of drm_display_init *)

\* a loop that breaks at its first hit: the index (from 1) of the first TRUE
\* of the sequence of tests `hits`, 0 if there is none
FirstIndex(hits) ==
    IF \E i \in 1..Len(hits) : hits[i]
    THEN CHOOSE i \in 1..Len(hits) : hits[i] /\ \A j \in 1..(i - 1) : ~hits[j]
    ELSE 0

\* drmModeGetEncoder: NULL (here id 0) for an id the device does not have
GetEncoder(h, id) ==
    LET i == FirstIndex([n \in 1..Len(h.encoders) |-> h.encoders[n].id = id])
    IN  IF i = 0 THEN [id |-> 0, crtc_id |-> 0, possible_crtcs |-> {}]
        ELSE h.encoders[i]

\* a connector loop that takes the first connector, plugged in or not
find_connector_first(h) == IF Len(h.connectors) > 0 THEN 1 ELSE 0

\* a connector loop without its break: the last usable connector wins
find_connector_last(h) ==
    LET ok == {n \in 1..Len(h.connectors) :
                 h.connectors[n].connected /\ Len(h.connectors[n].modes) > 0}
    IN  IF ok = {} THEN 0 ELSE CHOOSE n \in ok : \A n2 \in ok : n2 <= n

\* the connector loop of drm_display_init: index of the chosen connector, 0 if none
find_connector(h) ==
    FirstIndex([n \in 1..Len(h.connectors) |->
                   h.connectors[n].connected /\ Len(h.connectors[n].modes) > 0])

\* a mode loop that takes modes[0] whatever is flagged preferred
find_mode_first(conn) == conn.modes[1]

\* the mode loop: the first preferred mode, else modes[0]
find_mode(conn) ==
    LET i == FirstIndex([n \in 1..Len(conn.modes) |-> conn.modes[n].preferred])
    IN  IF i # 0 THEN conn.modes[i] ELSE conn.modes[1]

\* a scan of the compatibility mask that runs to its end: the last CRTC the
\* encoder allows wins
find_crtc_lastAllowed(h, conn, crtc_id) ==
    LET enc == GetEncoder(h, conn.encoder_id)
        c1  == IF conn.encoder_id # 0 /\ enc.id # 0 THEN enc.crtc_id ELSE crtc_id
        usable(eid) == LET e == GetEncoder(h, eid)
                       IN  e.id # 0 /\ \E j \in 1..Len(h.crtcs) : (j - 1) \in e.possible_crtcs
        ei  == FirstIndex([n \in 1..Len(conn.encoders) |-> usable(conn.encoders[n])])
    IN  IF c1 # 0 THEN c1
        ELSE IF ei = 0 THEN 0
        ELSE LET e == GetEncoder(h, conn.encoders[ei])
                 j == CHOOSE j \in 1..Len(h.crtcs) :
                          /\ (j - 1) \in e.possible_crtcs
                          /\ \A j2 \in (j + 1)..Len(h.crtcs) : (j2 - 1) \notin e.possible_crtcs
             IN  h.crtcs[j]

\* "Find CRTC": the current encoder's CRTC overwrites d.crtc_id; the scan of
\* the encoders runs only while d.crtc_id is still 0
find_crtc(h, conn, crtc_id) ==
    LET enc == GetEncoder(h, conn.encoder_id)
        c1  == IF conn.encoder_id # 0 /\ enc.id # 0 THEN enc.crtc_id ELSE crtc_id
        usable(eid) == LET e == GetEncoder(h, eid)
                       IN  e.id # 0 /\ \E j \in 1..Len(h.crtcs) : (j - 1) \in e.possible_crtcs
        ei  == FirstIndex([n \in 1..Len(conn.encoders) |-> usable(conn.encoders[n])])
    IN  IF c1 # 0 THEN c1
        ELSE IF ei = 0 THEN 0
        ELSE LET e == GetEncoder(h, conn.encoders[ei])
                 j == CHOOSE j \in 1..Len(h.crtcs) :
                          /\ (j - 1) \in e.possible_crtcs
                          /\ \A j2 \in 1..(j - 1) : (j2 - 1) \notin e.possible_crtcs
             IN  h.crtcs[j]

\* a plane search that ignores the planes' CRTC masks
find_plane_by_type_anyCrtc(h, crtc_id, plane_type) ==
    LET pi == FirstIndex([n \in 1..Len(h.planes) |-> h.planes[n].type = plane_type])
    IN  IF pi = 0 THEN 0 ELSE h.planes[pi].plane_id

find_plane_by_type(h, crtc_id, plane_type) ==
    LET ci == FirstIndex([n \in 1..Len(h.crtcs) |-> h.crtcs[n] = crtc_id])
        pi == FirstIndex([n \in 1..Len(h.planes) |->
                             /\ (ci - 1) \in h.planes[n].possible_crtcs
                             /\ h.planes[n].type = plane_type])
    IN  IF ci = 0 \/ pi = 0 THEN 0 ELSE h.planes[pi].plane_id

----------------------------------------------------------------------------
(* The DrmDisplay session *)

\* struct DrmDisplay with its default member initialisers
DrmDisplayInit ==
    [fd |-> -1, connector_id |-> 0, crtc_id |-> 0, plane_id |-> 0,
     display_width |-> 0, display_height |-> 0, mode_info |-> NoMode,
     buffers |-> [i \in 0..1 |-> NoBuffer], mode_buf |-> NoBuffer,
     current_buffer |-> 0, frame_count |-> 0,
     src_width |-> 0, src_height |-> 0,
     buffers_ready |-> FALSE, mode_set |-> FALSE,
     dirtyfb_checked |-> FALSE, dirtyfb_supported |-> FALSE,
     debug_flags_initialized |-> FALSE, debug_test_pattern |-> FALSE,
     debug_force_msync |-> FALSE, debug_disable_plane |-> FALSE,
     debug_use_overlay |-> FALSE, debug_no_vblank_sync |-> FALSE,
     setcrtc_error_logged |-> FALSE, plane_is_overlay |-> FALSE,
     vblank_error_logged |-> FALSE, fast_upscale_logged |-> FALSE]

init_debug_flags(d0, e) ==
    IF d0.debug_flags_initialized THEN d0
    ELSE [d0 EXCEPT !.debug_test_pattern = ("TEST_PATTERN" \in e),
                    !.debug_force_msync = ("FORCE_MSYNC" \in e),
                    !.debug_disable_plane = ("DISABLE_PLANE" \in e),
                    !.debug_use_overlay = ("USE_OVERLAY" \in e),
                    !.debug_no_vblank_sync = ("NO_VBLANK_SYNC" \in e),
                    !.debug_flags_initialized = TRUE]

\* a vertical blank elapses: a queued page flip takes effect
KVBlank(ks) ==
    IF ks.pending_fb # 0
    THEN [ks EXCEPT !.crtc_fb = ks.pending_fb, !.pending_fb = 0]
    ELSE ks

\* the failure of drmWaitVBlank is reported: && !d.vblank_error_logged
LogsVBlankError(d0) == ~d0.vblank_error_logged

\* wait_vblank: the set of outcomes [d, k, calls]; drmWaitVBlank succeeds
\* only on an open descriptor, and then returns after the next vertical blank
wait_vblank(d0, ks) ==
    LET failed == << Call("WaitVBlank", 0, "fail") >>
                  \o (IF LogsVBlankError(d0)
                      THEN << Call("log_WaitVBlank", 0, "fail") >> ELSE << >>)
    IN  IF d0.debug_no_vblank_sync
        THEN { [d |-> d0, k |-> ks, calls |-> << >>] }
        ELSE (IF d0.fd >= 0
              THEN { [d |-> d0, k |-> KVBlank(ks),
                      calls |-> << Call("WaitVBlank", 0, "ok") >>] }
              ELSE { [d |-> [d0 EXCEPT !.vblank_error_logged = TRUE], k |-> ks,
                      calls |-> failed] })
             \cup
             (IF d0.fd >= 0 /\ CanFault(ks)
              THEN { [d |-> [d0 EXCEPT !.vblank_error_logged = TRUE], k |-> Fault(ks),
                      calls |-> failed] }
              ELSE {})

\* a cleanup that forgets the reserved mode-set buffer
drm_display_cleanup_skipModeBuf(d0, ks) ==
    LET x0 == destroy_dumb_buffer(d0.fd, ks, d0.buffers[0])
        x1 == destroy_dumb_buffer(d0.fd, x0.k, d0.buffers[1])
        d1 == [d0 EXCEPT !.buffers = [i \in 0..1 |-> IF i = 0 THEN x0.buf ELSE x1.buf]]
        cb == x0.calls \o x1.calls
    IN  IF d1.fd >= 0
        THEN [d |-> [d1 EXCEPT !.fd = -1, !.buffers_ready = FALSE, !.mode_set = FALSE],
              k |-> KClose(x1.k),
              calls |-> cb \o << Call("DropMaster", 0, "ok"), Call("close", d1.fd, "ok") >>]
        ELSE [d |-> [d1 EXCEPT !.buffers_ready = FALSE, !.mode_set = FALSE],
              k |-> x1.k, calls |-> cb]

\* a plane choice that reports the preference instead of the plane's type
choose_plane_flagFromPreference(use_overlay, primary, overlay) ==
    IF use_overlay
    THEN [plane_id |-> IF overlay # 0 THEN overlay ELSE primary,
          plane_is_overlay |-> TRUE]
    ELSE [plane_id |-> IF primary # 0 THEN primary ELSE overlay,
          plane_is_overlay |-> FALSE]

\* "Choose plane": the preferred type, else the other; primary and overlay
\* are what find_plane_by_type gives for the two types (0: none)
choose_plane(use_overlay, primary, overlay) ==
    IF use_overlay
    THEN [plane_id |-> IF overlay # 0 THEN overlay ELSE primary,
          plane_is_overlay |-> overlay # 0]
    ELSE [plane_id |-> IF primary # 0 THEN primary ELSE overlay,
          plane_is_overlay |-> primary = 0 /\ overlay # 0]

\* the mode loop, "Find CRTC" and the plane selection of drm_display_init for
\* the chosen connector: [d, ok, calls]
init_select(d2, h, conn) ==
    LET mode == find_mode(conn)
        d3 == [d2 EXCEPT !.connector_id = conn.id,
                         !.display_width = mode.hdisplay,
                         !.display_height = mode.vdisplay,
                         !.crtc_id = find_crtc(h, conn, d2.crtc_id)]
        primary == find_plane_by_type(h, d3.crtc_id, "primary")
        overlay == find_plane_by_type(h, d3.crtc_id, "overlay")
    IN  IF d3.crtc_id = 0
        THEN [d |-> d3, ok |-> FALSE,
              calls |-> << Call("connector", conn.id, "ok"), Call("crtc", 0, "fail") >>]
        ELSE [d |-> [d3 EXCEPT !.mode_info = mode,
                               !.plane_id = choose_plane(d3.debug_use_overlay,
                                                         primary, overlay).plane_id,
                               !.plane_is_overlay =
                                   choose_plane(d3.debug_use_overlay,
                                                primary, overlay).plane_is_overlay],
              ok |-> TRUE,
              calls |-> << Call("connector", conn.id, "ok"),
                           Call("crtc", d3.crtc_id, "ok") >>]

\* the connector loop of drm_display_init and what follows it: [d, ok, calls]
init_discover(d2, h) ==
    IF find_connector(h) = 0
    THEN [d |-> d2, ok |-> FALSE, calls |-> << Call("connector", 0, "fail") >>]
    ELSE init_select(d2, h, h.connectors[find_connector(h)])

\* an init that leaves frame_count as the previous session left it
init_mode_set_keepFrameCount(d4, k2, c4, oc, setcrtc) ==
    LET cr == create_dumb_buffer(d4.fd, k2, d4.mode_buf,
                                 d4.display_width, d4.display_height, oc)
    IN  IF ~cr.ok
        THEN [d |-> [d4 EXCEPT !.mode_buf = cr.buf], k |-> cr.k, ok |-> FALSE,
              calls |-> c4 \o cr.calls]
        ELSE [d |-> [d4 EXCEPT !.mode_buf = cr.buf],
              k |-> IF setcrtc
                    THEN [cr.k EXCEPT !.crtc_fb = cr.buf.fb_id, !.pending_fb = 0]
                    ELSE Fault(cr.k),
              ok |-> TRUE,
              calls |-> c4 \o cr.calls
                           \o << Call("memset", cr.buf.map, "ok"),
                                 Call("SetCrtc", cr.buf.fb_id,
                                      IF setcrtc THEN "ok" ELSE "fail") >>]

\* the reserved mode-set buffer and the initial drmModeSetCrtc, which answers
\* setcrtc: [d, k, calls, ok]
init_mode_set(d4, k2, c4, oc, setcrtc) ==
    LET cr == create_dumb_buffer(d4.fd, k2, d4.mode_buf,
                                 d4.display_width, d4.display_height, oc)
    IN  IF ~cr.ok
        THEN [d |-> [d4 EXCEPT !.mode_buf = cr.buf], k |-> cr.k, ok |-> FALSE,
              calls |-> c4 \o cr.calls]
        ELSE [d |-> [d4 EXCEPT !.mode_buf = cr.buf, !.frame_count = 0],
              k |-> IF setcrtc
                    THEN [cr.k EXCEPT !.crtc_fb = cr.buf.fb_id, !.pending_fb = 0]
                    ELSE Fault(cr.k),
              ok |-> TRUE,
              calls |-> c4 \o cr.calls
                           \o << Call("memset", cr.buf.map, "ok"),
                                 Call("SetCrtc", cr.buf.fb_id,
                                      IF setcrtc THEN "ok" ELSE "fail") >>]

\* open, drmSetMaster, drmSetClientCap and a successful drmModeGetResources
InitOpenCalls ==
    << Call("open", CardFd, "ok"), Call("SetMaster", 0, "ok"),
       Call("SetClientCap", 0, "ok"), Call("GetResources", 0, "ok") >>

\* drm_display_init once the device is open and its resources are known:
\* the set of outcomes [d, k, calls, ok]
init_opened(d2, k2, h) ==
    UNION {
      IF ~x.ok
      THEN { [d |-> x.d, k |-> k2, ok |-> FALSE, calls |-> InitOpenCalls \o x.calls] }
      ELSE { init_mode_set(x.d, k2, InitOpenCalls \o x.calls, oc, sc) :
               oc \in CreateScripts(x.d.fd, k2, x.d.display_width, x.d.display_height),
               sc \in IF CanFault(k2) THEN BOOLEAN ELSE {TRUE} }
      : x \in {init_discover(d2, h)} }

\* drm_display_init: the set of outcomes [d, k, calls, ok] over the answers of
\* open, drmModeGetResources, the mode-set buffer's allocation and drmModeSetCrtc
drm_display_init(d0, ks, h, e) ==
    UNION {
      (IF CanFault(ks)
       THEN { [d |-> [d1 EXCEPT !.fd = -1], k |-> Fault(ks),
               ok |-> FALSE, calls |-> << Call("open", 0, "fail") >>],
              [d |-> [d1 EXCEPT !.fd = CardFd], k |-> Fault(k2), ok |-> FALSE,
               calls |-> << Call("open", CardFd, "ok"), Call("SetMaster", 0, "ok"),
                            Call("SetClientCap", 0, "ok"),
                            Call("GetResources", 0, "fail") >>] }
       ELSE {})
      \cup
      init_opened([d1 EXCEPT !.fd = CardFd], k2, h)
      : d1 \in {init_debug_flags(d0, e)},
        k2 \in {[ks EXCEPT !.open = TRUE, !.master = TRUE]} }

drm_display_cleanup(d0, ks) ==
    LET x0 == destroy_dumb_buffer(d0.fd, ks, d0.buffers[0])
        x1 == destroy_dumb_buffer(d0.fd, x0.k, d0.buffers[1])
        xm == destroy_dumb_buffer(d0.fd, x1.k, d0.mode_buf)
        d1 == [d0 EXCEPT !.buffers = [i \in 0..1 |-> IF i = 0 THEN x0.buf ELSE x1.buf],
                         !.mode_buf = xm.buf]
        cb == x0.calls \o x1.calls \o xm.calls
    IN  IF d1.fd >= 0
        THEN [d |-> [d1 EXCEPT !.fd = -1, !.buffers_ready = FALSE, !.mode_set = FALSE],
              k |-> KClose(xm.k),
              calls |-> cb \o << Call("DropMaster", 0, "ok"), Call("close", d1.fd, "ok") >>]
        ELSE [d |-> [d1 EXCEPT !.buffers_ready = FALSE, !.mode_set = FALSE],
              k |-> xm.k, calls |-> cb]

----------------------------------------------------------------------------
(* drm_display_present, in the order of its steps.  Each step maps a state *)
(* [d, k, calls] to the set of states the kernel's answers can lead to.    *)

\* a pool that is reallocated only while it is not ready
NeedsRealloc_readyOnly(d0, width, height) == ~d0.buffers_ready

\* the condition under which present throws the pool away
NeedsRealloc(d0, width, height) ==
    ~d0.buffers_ready \/ d0.src_width # width \/ d0.src_height # height

\* an allocation that keeps the old front/back index
AllocIndex_keep(cur) == cur

\* d.current_buffer = 0 after a successful allocation
AllocIndex(cur) == 0

\* a resize that also forgets that the mode was set
RecordSource_resetsModeSet(d0, width, height) ==
    [d0 EXCEPT !.src_width = width, !.src_height = height, !.mode_set = FALSE]

\* d.src_width = width; d.src_height = height
RecordSource(d0, width, height) ==
    [d0 EXCEPT !.src_width = width, !.src_height = height]

\* the pool (re)allocation: [d, k, calls, ok]
present_alloc(d0, ks, width, height) ==
    IF ~NeedsRealloc(d0, width, height)
    THEN { [d |-> d0, k |-> ks, calls |-> << >>, ok |-> TRUE] }
    ELSE
    LET x0 == destroy_dumb_buffer(d0.fd, ks, d0.buffers[0])
        x1 == destroy_dumb_buffer(d0.fd, x0.k, d0.buffers[1])
        d1 == RecordSource(d0, width, height)
        cd == x0.calls \o x1.calls
        after(oc0, oc1) ==
            LET y0 == create_dumb_buffer(d1.fd, x1.k, x0.buf,
                                         d1.display_width, d1.display_height, oc0)
                y1 == create_dumb_buffer(d1.fd, y0.k, x1.buf,
                                         d1.display_width, d1.display_height, oc1)
            IN  IF ~y0.ok
                THEN [d |-> [d1 EXCEPT !.buffers = [i \in 0..1 |->
                                           IF i = 0 THEN y0.buf ELSE x1.buf]],
                      k |-> y0.k, calls |-> cd \o y0.calls, ok |-> FALSE]
                ELSE IF ~y1.ok
                THEN [d |-> [d1 EXCEPT !.buffers = [i \in 0..1 |->
                                           IF i = 0 THEN y0.buf ELSE y1.buf]],
                      k |-> y1.k, calls |-> cd \o y0.calls \o y1.calls, ok |-> FALSE]
                ELSE [d |-> [d1 EXCEPT !.buffers = [i \in 0..1 |->
                                           IF i = 0 THEN y0.buf ELSE y1.buf],
                                       !.buffers_ready = TRUE,
                                       !.current_buffer = AllocIndex(@)],
                      k |-> y1.k, calls |-> cd \o y0.calls \o y1.calls, ok |-> TRUE]
    IN  { after(oc0, oc1) :
            oc0 \in CreateScripts(d1.fd, x1.k, d1.display_width, d1.display_height),
            oc1 \in CreateScripts(d1.fd, x1.k, d1.display_width, d1.display_height) }

\* which loop of present fills the buffer
BlitPath(width, height, bw, bh) ==
    IF width > 0 /\ height > 0 /\ bw % width = 0 /\ bh % height = 0
    THEN (IF bw \div width > 0 /\ bh \div height > 0
             /\ bw \div width <= 4 /\ bh \div height <= 4
          THEN "fast" ELSE "fallback")
    ELSE "generic"

\* the pixel write into buffers[current_buffer]: [d, k, calls, alive].
\* A write through buf.map == nullptr is undefined: the process is killed by
\* the fault, or the stores are lost and execution goes on.
present_write(d0, ks, cs, width, height) ==
    LET buf  == d0.buffers[d0.current_buffer]
        path == IF d0.debug_test_pattern THEN "pattern"
                ELSE BlitPath(width, height, buf.width, buf.height)
        d1   == IF path = "fast" THEN [d0 EXCEPT !.fast_upscale_logged = TRUE] ELSE d0
        c1   == IF d1.debug_force_msync THEN << Call("msync", buf.map, "ok") >> ELSE << >>
    IN  IF buf.width = 0 \/ buf.height = 0
        THEN { [d |-> d1, k |-> ks, calls |-> cs \o c1, alive |-> TRUE] }
        ELSE IF buf.map # 0
        THEN { [d |-> d1, k |-> ks, alive |-> TRUE,
                calls |-> cs \o << Call("write", d0.current_buffer, path) >> \o c1] }
        ELSE { [d |-> d1, k |-> ks, alive |-> FALSE,
                calls |-> cs \o << Call("write", d0.current_buffer, "nullptr") >>],
               [d |-> d1, k |-> ks, alive |-> TRUE,
                calls |-> cs \o << Call("write", d0.current_buffer, "nullptr") >> \o c1] }

\* a notification that is repeated whatever the probe said
DirtyAgain_always(d0) == TRUE

\* else if (d.dirtyfb_supported)
DirtyAgain(d0) == d0.dirtyfb_supported

\* a probe that does not record that it was made
present_dirtyfb_uncheckedProbe(d0, ks, cs) ==
    LET fb  == d0.buffers[d0.current_buffer].fb_id
        err == IF d0.fd >= 0 /\ fb \in ks.fbs /\ ks.cap_dirty THEN "ok" ELSE "fail"
    IN  IF ~d0.dirtyfb_checked
        THEN [d |-> [d0 EXCEPT !.dirtyfb_supported = (err = "ok")],
              k |-> ks, calls |-> cs \o << Call("DirtyFB", fb, err) >>]
        ELSE IF DirtyAgain(d0)
        THEN [d |-> d0, k |-> ks, calls |-> cs \o << Call("DirtyFB", fb, err) >>]
        ELSE [d |-> d0, k |-> ks, calls |-> cs]

\* the damage notification, probed once: [d, k, calls].  drmModeDirtyFB
\* succeeds exactly when the driver implements it.
present_dirtyfb(d0, ks, cs) ==
    LET fb  == d0.buffers[d0.current_buffer].fb_id
        err == IF d0.fd >= 0 /\ fb \in ks.fbs /\ ks.cap_dirty THEN "ok" ELSE "fail"
    IN  IF ~d0.dirtyfb_checked
        THEN [d |-> [d0 EXCEPT !.dirtyfb_supported = (err = "ok"),
                               !.dirtyfb_checked = TRUE],
              k |-> ks, calls |-> cs \o << Call("DirtyFB", fb, err) >>]
        ELSE IF DirtyAgain(d0)
        THEN [d |-> d0, k |-> ks, calls |-> cs \o << Call("DirtyFB", fb, err) >>]
        ELSE [d |-> d0, k |-> ks, calls |-> cs]

\* the answers drmModePageFlip can give for framebuffer fb
KPageFlip(ks, fd, crtc, fb) ==
    IF fd < 0 THEN {"EBADF"}
    ELSE IF fb \notin ks.fbs \/ crtc \notin ks.crtcs THEN {"ENOENT"}
    ELSE IF ks.pending_fb # 0 THEN {"EBUSY"}
    ELSE IF CanFault(ks) THEN {"ok", "EINVAL"}
    ELSE {"ok"}

\* a submit step that always takes the mode-set branch
UsesModeSet_always(d0) == TRUE

\* first frame: SetCrtc; later frames: PageFlip
UsesModeSet(d0) == ~d0.mode_set

\* a retry after every failed flip
RetryFlip_anyError(err) == err # "ok"

\* err < 0 && errno == EBUSY
RetryFlip(err) == err = "EBUSY"

\* a report of every failed flip
LogsFlipError_always(dx) == TRUE

\* the failure of the page flip is reported: if (!d.setcrtc_error_logged)
LogsFlipError(dx) == ~dx.setcrtc_error_logged

\* a dropped frame that still swaps the index
FlipFailed_swaps(dx) ==
    [dx EXCEPT !.setcrtc_error_logged = TRUE, !.current_buffer = (@ + 1) % 2]

\* the session after a page flip that failed for good
FlipFailed(dx) == [dx EXCEPT !.setcrtc_error_logged = TRUE]

\* d.current_buffer ^= 1; d.frame_count++
FrameDone(dx) ==
    [dx EXCEPT !.current_buffer = (@ + 1) % 2, !.frame_count = @ + 1]

\* the submit step for framebuffer fb and the bookkeeping after it:
\* [d, k, calls, ok]
present_submit(d0, ks, cs, fb) ==
    LET done(dx, kx, cx) ==
            [d |-> FrameDone(dx), k |-> kx, calls |-> cx, ok |-> TRUE]
        fail(dx, kx, cx) ==
            [d |-> FlipFailed(dx), k |-> kx, calls |-> cx, ok |-> FALSE]
        flip(dx, kx, cx, r) ==
            IF r = "ok"
            THEN done(dx, [kx EXCEPT !.pending_fb = fb], cx \o << Call("PageFlip", fb, r) >>)
            ELSE fail(dx, IF r = "EINVAL" THEN Fault(kx) ELSE kx,
                      cx \o << Call("PageFlip", fb, r) >>
                         \o (IF LogsFlipError(dx)
                             THEN << Call("log_pageFlip", fb, r) >> ELSE << >>))
    IN  IF UsesModeSet(d0)
        THEN (IF d0.fd >= 0 /\ fb \in ks.fbs /\ d0.crtc_id \in ks.crtcs
              THEN { done([d0 EXCEPT !.mode_set = TRUE],
                          [ks EXCEPT !.crtc_fb = fb, !.pending_fb = 0],
                          cs \o << Call("SetCrtc", fb, "ok") >>) }
              ELSE { [d |-> d0, k |-> ks, ok |-> FALSE,
                      calls |-> cs \o << Call("SetCrtc", fb, "fail") >>] })
             \cup
             (IF d0.fd >= 0 /\ fb \in ks.fbs /\ d0.crtc_id \in ks.crtcs /\ CanFault(ks)
              THEN { [d |-> d0, k |-> Fault(ks), ok |-> FALSE,
                      calls |-> cs \o << Call("SetCrtc", fb, "fail") >>] }
              ELSE {})
        ELSE UNION {
               IF RetryFlip(r1)
               THEN UNION { { flip(wv.d, wv.k,
                                   cs \o << Call("PageFlip", fb, r1) >> \o wv.calls, r2)
                              : r2 \in KPageFlip(wv.k, wv.d.fd, wv.d.crtc_id, fb) }
                            : wv \in wait_vblank(d0, ks) }
               ELSE { flip(d0, ks, cs, r1) }
               : r1 \in KPageFlip(ks, d0.fd, d0.crtc_id, fb) }

\* drm_display_present: the set of outcomes [d, k, calls, ok, alive]
drm_display_present(d0, ks, e, width, height, stride) ==
    LET d1 == init_debug_flags(d0, e)
        tail(w) ==
            IF ~w.alive
            THEN { [d |-> w.d, k |-> w.k, calls |-> w.calls, ok |-> FALSE, alive |-> FALSE] }
            ELSE LET n == present_dirtyfb(w.d, w.k, w.calls)
                 IN  { [d |-> s.d, k |-> s.k, calls |-> s.calls,
                        ok |-> s.ok, alive |-> TRUE]
                       : s \in present_submit(n.d, n.k, n.calls,
                                               n.d.buffers[n.d.current_buffer].fb_id) }
        body(a) ==
            IF ~a.ok
            THEN { [d |-> a.d, k |-> a.k, calls |-> a.calls, ok |-> FALSE, alive |-> TRUE] }
            ELSE UNION { tail(w) : w \in present_write(a.d, a.k, a.calls, width, height) }
    IN  IF stride < MinStride(width)
        THEN { [d |-> d1, k |-> ks, calls |-> << >>, ok |-> FALSE, alive |-> TRUE] }
        ELSE UNION { body(a) : a \in present_alloc(d1, ks, width, height) }

----------------------------------------------------------------------------
(* interface.cpp: the zero-copy GPU display and the session around it *)

\* GpuDisplayBuffer with its default member initialisers; image = FALSE is an
\* empty ImageHandle
NoGpuBuffer == [image |-> FALSE, drm_fb_id |-> 0, gem_handle |-> 0]

GpuInit ==
    [bufs |-> [i \in 0..1 |-> NoGpuBuffer],   \* gpu_display_bufs
     idx |-> 0,                                \* gpu_display_idx
     ready |-> FALSE,                          \* gpu_display_ready
     failed |-> FALSE,                         \* gpu_display_failed
     wsi |-> FALSE,                            \* wsi != nullptr
     processor |-> FALSE,                      \* processor != nullptr
     fullscreen |-> FALSE,                     \* gfx_info.fullscreen
     crop_letterbox |-> FALSE]                 \* crop_letterbox

\* drm_display_flip is declared and defined in no file of src/; by the
\* description of flip(buffer) it is the submit step of present, applied to a
\* framebuffer the caller has prepared: [d, k, calls, ok]
drm_display_flip(d0, ks, fb) == present_submit(d0, ks, << >>, fb)

\* how the import of one display buffer may end: the GPU driver either imports
\* linear DMA-bufs or never does, and any step may fail for a reason outside
\* the program
GpuScripts(fd, ks, h, dw, dh) ==
    IF fd < 0 \/ dw = 0 \/ dh = 0 THEN {"fail_create"}
    ELSE (IF h.dmabuf_import THEN {"ok"} ELSE {"fail_import"})
         \cup
         (IF CanFault(ks)
          THEN {"fail_create", "fail_addfb", "fail_export", "fail_import"}
          ELSE {})

\* one iteration of the loop of init_gpu_display: [k, buf, ok, calls]
gpu_import_buffer(fd, ks, h, dw, dh, oc) ==
    IF oc = "fail_create"
    THEN [k |-> IF fd < 0 \/ dw = 0 \/ dh = 0 THEN ks ELSE Fault(ks),
          buf |-> NoGpuBuffer, ok |-> FALSE,
          calls |-> << Call("CREATE_DUMB", 0, "fail") >>]
    ELSE
    LET gem == FreshId(ks.handles)
        c1  == << Call("CREATE_DUMB", gem, "ok") >>
        cd  == << Call("DESTROY_DUMB", gem, "ok") >>
    IN
    IF oc = "fail_addfb"
    THEN [k |-> Fault(ks), buf |-> NoGpuBuffer, ok |-> FALSE,
          calls |-> c1 \o << Call("AddFB2", gem, "fail"), Call("AddFB2", gem, "fail") >>
                       \o cd]
    ELSE
    LET fb == FreshId(ks.fbs)
        c2 == c1 \o << Call("AddFB2", fb, "ok") >>
        cr == << Call("RmFB", fb, "ok") >> \o cd
    IN
    IF oc = "fail_export"
    THEN [k |-> Fault(ks), buf |-> NoGpuBuffer, ok |-> FALSE,
          calls |-> c2 \o << Call("PrimeHandleToFD", gem, "fail") >> \o cr]
    ELSE
    IF oc = "fail_import"
    THEN [k |-> IF h.dmabuf_import THEN Fault(ks) ELSE ks,
          buf |-> NoGpuBuffer, ok |-> FALSE,
          calls |-> c2 \o << Call("PrimeHandleToFD", gem, "ok"),
                             Call("create_image", gem, "fail"),
                             Call("close_dmabuf", gem, "ok") >> \o cr]
    ELSE [k |-> [ks EXCEPT !.handles = @ \cup {gem}, !.fbs = @ \cup {fb}],
          buf |-> [image |-> TRUE, drm_fb_id |-> fb, gem_handle |-> gem],
          ok |-> TRUE,
          calls |-> c2 \o << Call("PrimeHandleToFD", gem, "ok"),
                             Call("create_image", gem, "ok") >>]

\* a zero-copy path that is tried again after it has failed
GpuDisplayGivenUp_never(g0) == FALSE

\* if (gpu_display_failed) return false;
GpuDisplayGivenUp(g0) == g0.failed

\* init_gpu_display: the set of outcomes [g, k, calls, ok]
init_gpu_display(g0, d0, ks, h) ==
    IF GpuDisplayGivenUp(g0)
    THEN { [g |-> g0, k |-> ks, calls |-> << >>, ok |-> FALSE] }
    ELSE IF g0.ready
    THEN { [g |-> g0, k |-> ks, calls |-> << >>, ok |-> TRUE] }
    ELSE
    UNION {
      IF ~y0.ok
      THEN { [g |-> [g0 EXCEPT !.failed = TRUE], k |-> y0.k,
              calls |-> y0.calls, ok |-> FALSE] }
      ELSE { IF ~y1.ok
             THEN [g |-> [g0 EXCEPT !.bufs[0] = y0.buf, !.failed = TRUE], k |-> y1.k,
                   calls |-> y0.calls \o y1.calls, ok |-> FALSE]
             ELSE [g |-> [g0 EXCEPT !.bufs[0] = y0.buf, !.bufs[1] = y1.buf,
                                    !.ready = TRUE],
                   k |-> y1.k, calls |-> y0.calls \o y1.calls, ok |-> TRUE]
             : y1 \in { gpu_import_buffer(d0.fd, y0.k, h, d0.display_width,
                                          d0.display_height, oc1)
                        : oc1 \in GpuScripts(d0.fd, y0.k, h, d0.display_width,
                                             d0.display_height) } }
      : y0 \in { gpu_import_buffer(d0.fd, ks, h, d0.display_width,
                                   d0.display_height, oc0)
                 : oc0 \in GpuScripts(d0.fd, ks, h, d0.display_width,
                                      d0.display_height) } }

\* the body of the loop of cleanup_gpu_display for one buffer: [k, buf, calls]
gpu_release_buffer(fd, ks, buf) ==
    LET c0 == IF buf.image THEN << Call("image_reset", buf.gem_handle, "ok") >> ELSE << >>
        c1 == IF buf.drm_fb_id # 0
              THEN << Call("RmFB", buf.drm_fb_id, IF fd >= 0 THEN "ok" ELSE "fail") >>
              ELSE << >>
        k1 == IF buf.drm_fb_id # 0 /\ fd >= 0 THEN KRmFB(ks, buf.drm_fb_id) ELSE ks
        c2 == IF buf.gem_handle # 0
              THEN << Call("DESTROY_DUMB", buf.gem_handle,
                           IF fd >= 0 THEN "ok" ELSE "fail") >>
              ELSE << >>
        k2 == IF buf.gem_handle # 0 /\ fd >= 0
              THEN [k1 EXCEPT !.handles = @ \ {buf.gem_handle}] ELSE k1
    IN  [k |-> k2, buf |-> NoGpuBuffer, calls |-> c0 \o c1 \o c2]

\* a cleanup of the zero-copy buffers that stops after the first
cleanup_gpu_display_firstOnly(g0, fd, ks) ==
    LET x0 == gpu_release_buffer(fd, ks, g0.bufs[0])
    IN  [g |-> [g0 EXCEPT !.bufs = [i \in 0..1 |-> IF i = 0 THEN x0.buf ELSE g0.bufs[1]],
                          !.ready = FALSE, !.failed = FALSE],
         k |-> x0.k,
         calls |-> x0.calls]

\* cleanup_gpu_display: [g, k, calls]
cleanup_gpu_display(g0, fd, ks) ==
    LET x0 == gpu_release_buffer(fd, ks, g0.bufs[0])
        x1 == gpu_release_buffer(fd, x0.k, g0.bufs[1])
    IN  [g |-> [g0 EXCEPT !.bufs = [i \in 0..1 |-> IF i = 0 THEN x0.buf ELSE x1.buf],
                          !.ready = FALSE, !.failed = FALSE],
         k |-> x1.k,
         calls |-> x0.calls \o x1.calls]

\* an rdp_close that closes the display before it releases the GPU buffers
rdp_close_cleanupFirst(d0, ks, g0) ==
    CHOOSE r \in UNION {
        { [d |-> y.d, k |-> x.k,
           g |-> [x.g EXCEPT !.processor = FALSE, !.wsi = FALSE],
           calls |-> (IF g0.wsi THEN << Call("wait_idle", 0, "ok") >> ELSE << >>)
                     \o y.calls \o x.calls]
          : x \in {cleanup_gpu_display(g0, y.d.fd, y.k)} }
        : y \in {drm_display_cleanup(d0, ks)} } : TRUE

\* rdp_close: [d, k, g, calls]
rdp_close(d0, ks, g0) ==
    CHOOSE r \in UNION {
        { [d |-> y.d, k |-> y.k,
           g |-> [x.g EXCEPT !.processor = FALSE, !.wsi = FALSE],
           calls |-> (IF g0.wsi THEN << Call("wait_idle", 0, "ok") >> ELSE << >>)
                     \o x.calls \o y.calls]
          : y \in {drm_display_cleanup(d0, x.k)} }
        : x \in {cleanup_gpu_display(g0, d0.fd, ks)} } : TRUE

\* an rdp_init that returns on a failed drm_display_init without cleaning up
rdp_init_drm_failed_noClose(d0, ks, g0) ==
    [d |-> d0, k |-> ks, g |-> g0, calls |-> << >>]

\* what rdp_init does when drm_display_init has returned false
rdp_init_drm_failed(d0, ks, g0) == rdp_close(d0, ks, g0)

\* the steps of rdp_init after drm_display_init, by the first one that fails
VulkanSteps == {"ok", "loader", "context", "device", "unsupported", "font"}

\* rdp_init from the step after drm_display_init, which gave r, when `step`
\* is the first step to fail: [d, k, g, calls, ok]
rdp_init_vulkan(r, g0, step) ==
    IF step = "ok"
    THEN { [d |-> r.d, k |-> r.k, g |-> [g0 EXCEPT !.wsi = TRUE, !.processor = TRUE],
            ok |-> TRUE, calls |-> << Call("AddEventWatch", 0, "ok") >> \o r.calls] }
    ELSE { [d |-> x.d, k |-> x.k, g |-> x.g, ok |-> FALSE,
            calls |-> << Call("AddEventWatch", 0, "ok") >> \o r.calls
                         \o << Call("vulkan", 0, step) >> \o x.calls]
           : x \in { rdp_close(r.d, r.k,
                               [g0 EXCEPT !.wsi = TRUE,
                                          !.processor = step \in {"unsupported", "font"}]) } }

\* rdp_init: the set of outcomes [d, k, g, calls, ok]
rdp_init(d0, ks, g0, h, e) ==
    { [d |-> d0, k |-> ks, g |-> g0, ok |-> FALSE,
       calls |-> << Call("AddEventWatch", 0, "fail") >>] }
    \cup
    UNION { IF ~r.ok
            THEN { [d |-> x.d, k |-> x.k, g |-> x.g, ok |-> FALSE,
                    calls |-> << Call("AddEventWatch", 0, "ok") >> \o r.calls \o x.calls]
                   : x \in {rdp_init_drm_failed(r.d, r.k, g0)} }
            ELSE UNION { rdp_init_vulkan(r, g0, step) : step \in VulkanSteps }
            : r \in drm_display_init(d0, ks, h, e) }

\* const uint32_t src_stride = width * sizeof(RDP::RGBA), in 32 bits
SrcStride(width) == 4 * (width % 1073741824)

\* a blit that is submitted and not waited for
GpuBlitCalls_noWait(idx, width) ==
    << Call("scanout", width, "ok"), Call("blit_image", idx, "ok") >>

\* the zero-copy frame up to the flip: processor->scanout, the blit into
\* gpu_display_bufs[idx] submitted with a fence, and fence->wait()
GpuBlitCalls(idx, width) ==
    << Call("scanout", width, "ok"), Call("blit_image", idx, "ok"),
       Call("fence_wait", idx, "ok") >>

\* render_frame with a scanout of width x height pixels (0 x 0: no image):
\* the set of outcomes [d, k, g, calls, ok, alive]
render_frame(d0, ks, g0, h, e, width, height) ==
    LET gpu(gi) ==
            IF width = 0 \/ height = 0
            THEN { [d |-> d0, k |-> gi.k, g |-> gi.g, ok |-> FALSE, alive |-> TRUE,
                    calls |-> gi.calls \o << Call("scanout", 0, "null") >>] }
            ELSE LET dst == gi.g.bufs[gi.g.idx]
                     c1  == gi.calls \o GpuBlitCalls(gi.g.idx, width)
                 IN  { [d |-> f.d, k |-> f.k,
                        g |-> IF f.ok THEN [gi.g EXCEPT !.idx = (@ + 1) % 2] ELSE gi.g,
                        ok |-> f.ok, alive |-> TRUE, calls |-> c1 \o f.calls]
                       : f \in drm_display_flip(d0, gi.k, dst.drm_fb_id) }
        cpu(gi) ==
            IF width = 0 \/ height = 0
            THEN { [d |-> d0, k |-> gi.k, g |-> gi.g, ok |-> FALSE, alive |-> TRUE,
                    calls |-> gi.calls \o << Call("scanout_sync", 0, "empty") >>] }
            ELSE { [d |-> p.d, k |-> p.k, g |-> gi.g, ok |-> p.ok, alive |-> p.alive,
                    calls |-> gi.calls \o << Call("scanout_sync", width, "ok") >> \o p.calls]
                   : p \in drm_display_present(d0, gi.k, e, width, height,
                                               SrcStride(width)) }
    IN  UNION { IF gi.ok THEN gpu(gi) ELSE cpu(gi)
                : gi \in init_gpu_display(g0, d0, ks, h) }

----------------------------------------------------------------------------
(* Observations *)

Op(name, w, h, stride, ok) ==
    [op |-> name, w |-> w, h |-> h, stride |-> stride, ok |-> ok]

NoDrop == [valid |-> FALSE, idx |-> 0, fb |-> 0, w |-> 0, h |-> 0]

HistInit ==
    [session     |-> FALSE,    \* init has succeeded and cleanup has not run since
     nOk         |-> 0,        \* successful presents since init
     nOkAlloc    |-> 0,        \* successful presents since the pool was last allocated
     dirtySeen   |-> FALSE,    \* drmModeDirtyFB has been called by this process
     dirtyFailed |-> FALSE,    \* the first drmModeDirtyFB call, the probe, failed
     dropped     |-> NoDrop,   \* the frame the last present dropped at the submit step
     recovered   |-> FALSE,    \* the last present succeeded right after a dropped frame
     prev        |-> <<0, 0>>, \* (width, height) of the previous present call
     importFailed |-> FALSE,   \* the zero-copy import has failed in this session
     initFail    |-> "none",   \* the step at which the last drm_display_init gave up
     ended       |-> FALSE,    \* cleanup has ended a session, and no present ran since
     reached     |-> FALSE,    \* a present of this session got to the notification step
     probes      |-> 0,        \* probing drmModeDirtyFB calls made in this session
     reachedAll  |-> FALSE,    \* a present of this process got to the notification step
     probesAll   |-> 0,        \* probing drmModeDirtyFB calls made by this process
     probedIn    |-> FALSE,    \* a probing call was made in a session init had started
     crtcBefore  |-> 0,        \* the framebuffer the CRTC showed when init was last called
     flipLogs    |-> 0,        \* "pageFlip: ..." messages printed by this process
     vblankLogs  |-> 0]        \* "drmWaitVBlank failed: ..." messages printed by this process

\* the first element of cs whose call is name
FirstCall(cs, name) ==
    cs[CHOOSE i \in 1..Len(cs) :
           cs[i].call = name /\ \A j \in 1..(i - 1) : cs[j].call # name]

\* the history at the start of a session: what is known of the probe stays
HistReset(hs) ==
    [HistInit EXCEPT !.dirtySeen = hs.dirtySeen, !.dirtyFailed = hs.dirtyFailed,
                     !.ended = hs.ended, !.reachedAll = hs.reachedAll,
                     !.probesAll = hs.probesAll, !.probedIn = hs.probedIn,
                     !.crtcBefore = hs.crtcBefore,
                     !.flipLogs = hs.flipLogs, !.vblankLogs = hs.vblankLogs]

\* the step at which the drm_display_init that made the calls cs returned
\* false, "none" if it returned true
InitFailure(cs) ==
    LET failed(name) == \E i \in 1..Len(cs) : cs[i].call = name /\ cs[i].res = "fail"
    IN  IF failed("open") THEN "open"
        ELSE IF failed("GetResources") THEN "resources"
        ELSE IF failed("connector") THEN "connector"
        ELSE IF failed("crtc") THEN "crtc"
        ELSE IF ~HasCall(cs, "SetCrtc") THEN "modebuf"
        ELSE "none"

\* the last element of cs whose call is name
LastCall(cs, name) ==
    cs[CHOOSE i \in 1..Len(cs) :
           cs[i].call = name /\ \A j \in (i + 1)..Len(cs) : cs[j].call # name]

\* both pool buffers were created and mapped by the calls cs
PoolAllocated(cs) ==
    Cardinality({i \in 1..Len(cs) : cs[i].call = "mmap" /\ cs[i].res = "ok"}) = 2

\* the present that gave r got past the pixel write, to the notification step
ReachedNotify(r) ==
    r.alive /\ (HasCall(r.calls, "SetCrtc") \/ HasCall(r.calls, "PageFlip"))

\* the number of probing drmModeDirtyFB calls of the present that was entered
\* with session d0 and gave r: the call made while dirtyfb_checked is false
Probes(d0, r) ==
    IF ~d0.dirtyfb_checked /\ HasCall(r.calls, "DirtyFB") THEN 1 ELSE 0

HistAfterPresent(hs, d0, r, w, h) ==
    [session     |-> hs.session,
     nOk         |-> hs.nOk + (IF r.ok THEN 1 ELSE 0),
     nOkAlloc    |-> (IF PoolAllocated(r.calls) THEN 0 ELSE hs.nOkAlloc)
                     + (IF r.ok THEN 1 ELSE 0),
     dirtySeen   |-> hs.dirtySeen \/ HasCall(r.calls, "DirtyFB"),
     dirtyFailed |-> hs.dirtyFailed
                     \/ (~hs.dirtySeen /\ HasCall(r.calls, "DirtyFB")
                           /\ FirstCall(r.calls, "DirtyFB").res = "fail"),
     dropped     |-> IF ~r.ok /\ r.alive /\ HasCall(r.calls, "PageFlip")
                     THEN [valid |-> TRUE, idx |-> LastCall(r.calls, "write").arg,
                           fb |-> LastCall(r.calls, "PageFlip").arg, w |-> w, h |-> h]
                     ELSE NoDrop,
     recovered   |-> r.ok /\ hs.dropped.valid /\ hs.dropped.w = w /\ hs.dropped.h = h,
     prev        |-> <<w, h>>,
     importFailed |-> hs.importFailed,
     initFail    |-> hs.initFail,
     ended       |-> FALSE,
     reached     |-> hs.reached \/ ReachedNotify(r),
     probes      |-> hs.probes + Probes(d0, r),
     reachedAll  |-> hs.reachedAll \/ ReachedNotify(r),
     probesAll   |-> hs.probesAll + Probes(d0, r),
     probedIn    |-> hs.probedIn \/ (hs.session /\ Probes(d0, r) = 1),
     crtcBefore  |-> hs.crtcBefore,
     flipLogs    |-> hs.flipLogs + CountCall(r.calls, "log_pageFlip"),
     vblankLogs  |-> hs.vblankLogs + CountCall(r.calls, "log_WaitVBlank")]

\* struct PerfMonitor with its default member initialisers (the three paths
\* of the frequency files left out: they select the wording of the line only)
PerfInit ==
    [enabled |-> TRUE, window_start_ms |-> 0, frames_in_window |-> 0,
     sum_scanout_us |-> 0, sum_render_us |-> 0, sum_flip_us |-> 0, sum_total_us |-> 0,
     max_scanout_us |-> 0, max_render_us |-> 0, max_flip_us |-> 0, max_total_us |-> 0,
     paths_initialized |-> FALSE]

\* rdp_device after the memset of rdp_init; cmd_data is kept as the runs of
\* equal 64-bit words it holds from index 0 up, each run <<word, count>>
RdpDeviceInit == [cmd_data |-> << >>, cmd_cur |-> 0, cmd_ptr |-> 0]

\* the static callback, zero-initialised, after the assignments of rdp_init
CallbackInit ==
    [emu_running |-> TRUE, enable_speedlimiter |-> TRUE, paused |-> FALSE,
     save_state_slot |-> 0,
     save_state |-> FALSE, load_state |-> FALSE, lower_volume |-> FALSE,
     raise_volume |-> FALSE, frame_advance |-> FALSE]

\* nothing seen yet
NoSeen == [op |-> "none"]

\* no blit has been followed
NoBlit == [width |-> 0, height |-> 0, stride |-> 0, bw |-> 0, bh |-> 0,
           arch |-> "none", done |-> FALSE, dst |-> << >>,
           pattern |-> FALSE, frame_count |-> 0, alpha |-> 0, junk |-> 0,
           rows |-> {}, cols |-> {}]

----------------------------------------------------------------------------
(* The session as driven through the functions of drm_display.hpp *)

Init ==
    /\ hw \in Hardware
    /\ env \in EnvSets
    /\ d = DrmDisplayInit
    /\ k = KernelInit(hw)
    /\ g = GpuInit
    /\ calls = << >>
    /\ last = Op("none", 0, 0, 0, FALSE)
    /\ hist = HistInit
    /\ alive = TRUE
    /\ fbmem = NoBlit
    /\ perf_monitor = PerfInit
    /\ rdp_device = RdpDeviceInit
    /\ callback = CallbackInit
    /\ seen = NoSeen

\* drm_display_init on a session that holds no device (fresh or cleaned up)
DrmInit ==
    /\ alive
    /\ d.fd < 0
    /\ \E r \in drm_display_init(d, k, hw, env) :
          /\ d' = r.d
          /\ k' = r.k
          /\ calls' = r.calls
          /\ last' = Op("init", 0, 0, 0, r.ok)
          /\ hist' = [HistReset(hist) EXCEPT !.session = r.ok,
                                             !.initFail = InitFailure(r.calls),
                                             !.crtcBefore = k.crtc_fb]
    /\ UNCHANGED <<hw, env, g, alive, fbmem, perf_monitor, rdp_device, callback, seen>>

\* drm_display_present with any source size and row stride
Present ==
    /\ alive
    /\ d.frame_count < MaxFrames
    /\ \E sz \in SrcSizes : \E stride \in StridesFor(sz[1]) :
       \E r \in drm_display_present(d, k, env, sz[1], sz[2], stride) :
          /\ d' = r.d
          /\ k' = r.k
          /\ calls' = r.calls
          /\ alive' = r.alive
          /\ last' = Op("present", sz[1], sz[2], stride, r.ok)
          /\ hist' = HistAfterPresent(hist, d, r, sz[1], sz[2])
    /\ UNCHANGED <<hw, env, g, fbmem, perf_monitor, rdp_device, callback, seen>>

\* drm_display_cleanup, callable in every state
Cleanup ==
    /\ alive
    /\ LET r == drm_display_cleanup(d, k)
       IN  /\ d' = r.d
           /\ k' = r.k
           /\ calls' = r.calls
    /\ last' = Op("cleanup", 0, 0, 0, TRUE)
    /\ hist' = [HistReset(hist) EXCEPT !.ended = hist.session \/ hist.ended]
    /\ UNCHANGED <<hw, env, g, alive, fbmem, perf_monitor, rdp_device, callback, seen>>

\* the display reaches its next vertical blank
VBlank ==
    /\ k.pending_fb # 0
    /\ k' = KVBlank(k)
    /\ calls' = << >>
    /\ last' = Op("vblank", 0, 0, 0, TRUE)
    /\ UNCHANGED <<hw, env, d, g, hist, alive, fbmem, perf_monitor, rdp_device, callback, seen>>

Next == DrmInit \/ Present \/ Cleanup \/ VBlank

Spec == Init /\ [][Next]_vars

----------------------------------------------------------------------------
(* The session as driven through the functions of interface.cpp *)

\* scanouts offered to render_frame: a frame, or no image
Scanouts == SrcSizes \cup {<<0, 0>>}

\* the calls of cs that precede the scan-out, i.e. those of init_gpu_display
ImportCalls(cs) ==
    LET i == FirstIndex([n \in 1..Len(cs) |-> cs[n].call \in {"scanout", "scanout_sync"}])
    IN  IF i = 0 THEN cs ELSE SubSeq(cs, 1, i - 1)

\* the calls of cs that follow the scan-out
AfterScanout(cs) ==
    LET i == FirstIndex([n \in 1..Len(cs) |-> cs[n].call \in {"scanout", "scanout_sync"}])
    IN  IF i = 0 THEN << >> ELSE SubSeq(cs, i + 1, Len(cs))

\* a step of the import failed in cs
ImportFailedIn(cs) ==
    \E i \in 1..Len(ImportCalls(cs)) : ImportCalls(cs)[i].res = "fail"

\* rdp_init while no session is up
RdpInit ==
    /\ alive
    /\ ~g.wsi
    /\ d.fd < 0
    /\ \E r \in rdp_init(d, k, g, hw, env) :
          /\ d' = r.d
          /\ k' = r.k
          /\ g' = r.g
          /\ calls' = r.calls
          /\ last' = Op("rdp_init", 0, 0, 0, r.ok)
          /\ hist' = [HistReset(hist) EXCEPT !.session = r.ok]
    /\ UNCHANGED <<hw, env, alive, fbmem, perf_monitor, rdp_device, callback, seen>>

\* rdp_render_frame in an initialised session, with whatever the RDP scans out
RenderFrame ==
    /\ alive
    /\ g.wsi /\ g.processor
    /\ d.frame_count < MaxFrames
    /\ \E sz \in Scanouts :
       \E r \in render_frame(d, k, g, hw, env, sz[1], sz[2]) :
          /\ d' = r.d
          /\ k' = r.k
          /\ g' = r.g
          /\ calls' = r.calls
          /\ alive' = r.alive
          /\ last' = Op("render", sz[1], sz[2], SrcStride(sz[1]), r.ok)
          /\ hist' = [hist EXCEPT
                         !.importFailed = @ \/ ImportFailedIn(r.calls),
                         !.flipLogs = @ + CountCall(r.calls, "log_pageFlip"),
                         !.vblankLogs = @ + CountCall(r.calls, "log_WaitVBlank")]
    /\ UNCHANGED <<hw, env, fbmem, perf_monitor, rdp_device, callback, seen>>

\* rdp_close, callable in every state
RdpClose ==
    /\ alive
    /\ LET r == rdp_close(d, k, g)
       IN  /\ d' = r.d
           /\ k' = r.k
           /\ g' = r.g
           /\ calls' = r.calls
    /\ last' = Op("rdp_close", 0, 0, 0, TRUE)
    /\ hist' = HistReset(hist)
    /\ UNCHANGED <<hw, env, alive, fbmem, perf_monitor, rdp_device, callback, seen>>

NextRdp == RdpInit \/ RenderFrame \/ RdpClose \/ VBlank

SpecRdp == Init /\ [][NextRdp]_vars

----------------------------------------------------------------------------
(* Discovery alone, over more plane layouts *)

\* what drmModeGetPlaneResources may list for the CRTC of HwFull: a cursor
\* and a primary plane; a primary plane of another CRTC and an overlay; a
\* cursor plane alone; two overlays and two primaries
PlaneLayouts ==
    { << [plane_id |-> 63, possible_crtcs |-> {0}, type |-> "cursor"],
         [plane_id |-> 62, possible_crtcs |-> {0}, type |-> "primary"] >>,
      << [plane_id |-> 62, possible_crtcs |-> {1}, type |-> "primary"],
         [plane_id |-> 61, possible_crtcs |-> {0}, type |-> "overlay"] >>,
      << [plane_id |-> 63, possible_crtcs |-> {0}, type |-> "cursor"] >>,
      << [plane_id |-> 60, possible_crtcs |-> {1}, type |-> "overlay"],
         [plane_id |-> 61, possible_crtcs |-> {0, 1}, type |-> "overlay"],
         [plane_id |-> 62, possible_crtcs |-> {0}, type |-> "primary"],
         [plane_id |-> 64, possible_crtcs |-> {0}, type |-> "primary"] >> }

HardwareDiscovery == Hardware \cup {[HwFull EXCEPT !.planes = p] : p \in PlaneLayouts}

InitDiscovery ==
    /\ hw \in HardwareDiscovery
    /\ env \in EnvSets
    /\ d = DrmDisplayInit
    /\ k = KernelInit(hw)
    /\ g = GpuInit
    /\ calls = << >>
    /\ last = Op("none", 0, 0, 0, FALSE)
    /\ hist = HistInit
    /\ alive = TRUE
    /\ fbmem = NoBlit
    /\ perf_monitor = PerfInit
    /\ rdp_device = RdpDeviceInit
    /\ callback = CallbackInit
    /\ seen = NoSeen

NextDiscovery == DrmInit \/ Cleanup

SpecDiscovery == InitDiscovery /\ [][NextDiscovery]_vars

----------------------------------------------------------------------------
(* The pixels of drm_display_present: the copy of the RGBA8888 source frame *)
(* into the XRGB8888 buffer.  Memory is a function from byte offsets (the   *)
(* source) or from pixel coordinates (the buffer, whose rows are buf.stride *)
(* = buf.width * 4 bytes apart) to values.                                  *)

\* widths and heights of the source frames blitted
MaxBlitWidth == 17

MaxBlitHeight == 2

\* the byte every padding byte of a source row holds
PadByte == 170

\* channel c (0..3 = R, G, B, A) of source pixel (x, y)
SrcByte(x, y, c) ==
    IF c = 3 THEN 255 - ((x + y) % 2)
    ELSE (1 + 3 * x + 64 * y + 85 * c) % 256

\* the frame handed to present: height rows of stride bytes, of which the
\* first width * 4 are pixels
SrcImage(width, height, stride) ==
    [off \in 0..(height * stride - 1) |->
        IF off % stride < width * 4
        THEN SrcByte((off % stride) \div 4, off \div stride, off % 4)
        ELSE PadByte]

\* a conversion that keeps the source's byte order
xrgb_unswapped(px0, px1, px2) == px2 * 65536 + px1 * 256 + px0

\* (uint32_t(px[0]) << 16) | (uint32_t(px[1]) << 8) | uint32_t(px[2])
xrgb(px0, px1, px2) == px0 * 65536 + px1 * 256 + px2

\* rgba + src_y * stride: the byte offset of row src_y (a 32-bit product,
\* which the frames blitted here keep far below 2^32)
src_row(src_y, stride) == src_y * stride

\* vld4_u8: 32 bytes from off, de-interleaved into four vectors of 8 lanes
vld4_u8(mem, off) == [c \in 0..3 |-> [i \in 0..7 |-> mem[off + 4 * i + c]]]

\* vdup_n_u8
vdup_n_u8(v) == [i \in 0..7 |-> v]

\* a zip that concatenates the low halves instead of interleaving them
vzip_u8_halves(a, b) ==
    [n \in 0..1 |-> [i \in 0..7 |-> IF i < 4 THEN a[4 * n + i] ELSE b[4 * n + i - 4]]]

\* vzip_u8: val[0] interleaves lanes 0..3 of a and b, val[1] lanes 4..7
vzip_u8(a, b) ==
    [n \in 0..1 |-> [i \in 0..7 |-> IF i % 2 = 0 THEN a[4 * n + i \div 2]
                                     ELSE b[4 * n + i \div 2]]]

\* vst4_u8: the four vectors interleaved again, read back as 8 little-endian
\* 32-bit pixels
vst4_u8(v0, v1, v2, v3) ==
    [i \in 0..7 |-> v0[i] + 256 * v1[i] + 65536 * v2[i] + 16777216 * v3[i]]

\* const uint32_t neon_width = width & ~7u
neon_width(width) == width - (width % 8)

\* one iteration of the NEON loop for scale_x == 2: the 16 pixels written at out
neon_x2(mem, off) ==
    LET px    == vld4_u8(mem, off)
        zero  == vdup_n_u8(0)
        b_dup == vzip_u8(px[2], px[2])
        g_dup == vzip_u8(px[1], px[1])
        r_dup == vzip_u8(px[0], px[0])
        a_dup == vzip_u8(zero, zero)
        lo    == vst4_u8(b_dup[0], g_dup[0], r_dup[0], a_dup[0])
        hi    == vst4_u8(b_dup[1], g_dup[1], r_dup[1], a_dup[1])
    IN  [i \in 0..15 |-> IF i < 8 THEN lo[i] ELSE hi[i - 8]]

\* one iteration of the NEON loop for scale_x == 4: the 32 pixels written at out
neon_x4(mem, off) ==
    LET px    == vld4_u8(mem, off)
        zero  == vdup_n_u8(0)
        b2    == vzip_u8(px[2], px[2])
        g2    == vzip_u8(px[1], px[1])
        r2    == vzip_u8(px[0], px[0])
        z2    == vzip_u8(zero, zero)
        b4_lo == vzip_u8(b2[0], b2[0])
        g4_lo == vzip_u8(g2[0], g2[0])
        r4_lo == vzip_u8(r2[0], r2[0])
        z4_lo == vzip_u8(z2[0], z2[0])
        b4_hi == vzip_u8(b2[1], b2[1])
        g4_hi == vzip_u8(g2[1], g2[1])
        r4_hi == vzip_u8(r2[1], r2[1])
        z4_hi == vzip_u8(z2[1], z2[1])
        blk0  == vst4_u8(b4_lo[0], g4_lo[0], r4_lo[0], z4_lo[0])
        blk1  == vst4_u8(b4_lo[1], g4_lo[1], r4_lo[1], z4_lo[1])
        blk2  == vst4_u8(b4_hi[0], g4_hi[0], r4_hi[0], z4_hi[0])
        blk3  == vst4_u8(b4_hi[1], g4_hi[1], r4_hi[1], z4_hi[1])
    IN  [i \in 0..31 |-> IF i < 8 THEN blk0[i]
                         ELSE IF i < 16 THEN blk1[i - 8]
                         ELSE IF i < 24 THEN blk2[i - 16]
                         ELSE blk3[i - 24]]

\* a conversion that takes the frame for ARGB: channels from bytes 1, 2, 3
scalar_px_argb(mem, off, src_x) ==
    xrgb(mem[off + src_x * 4 + 1], mem[off + src_x * 4 + 2], mem[off + src_x * 4 + 3])

\* the scalar conversion of source pixel src_x of the row at off
scalar_px(mem, off, src_x) ==
    xrgb(mem[off + src_x * 4], mem[off + src_x * 4 + 1], mem[off + src_x * 4 + 2])

\* an expansion that repeats the whole row scale_x times side by side
expand_row_tiled(mem, off, width, scale_x, arch) ==
    [ox \in 0..(width * scale_x - 1) |-> scalar_px(mem, off, ox % width)]

\* expanded_row after the row at off has been expanded scale_x times: the
\* NEON loops with their scalar tails on aarch64 for scale_x 2 and 4, the
\* scalar loop otherwise
expand_row(mem, off, width, scale_x, arch) ==
    LET nw == neon_width(width)
        x2 == [c \in 0..(nw \div 8 - 1) |-> neon_x2(mem, off + c * 32)]
        x4 == [c \in 0..(nw \div 8 - 1) |-> neon_x4(mem, off + c * 32)]
    IN  [ox \in 0..(width * scale_x - 1) |->
            IF arch = "aarch64" /\ scale_x = 2 /\ ox < 2 * nw
            THEN x2[ox \div 16][ox % 16]
            ELSE IF arch = "aarch64" /\ scale_x = 4 /\ ox < 4 * nw
            THEN x4[ox \div 32][ox % 32]
            ELSE scalar_px(mem, off, ox \div scale_x)]

\* the nearest-neighbour loops (the fallback and the generic path)
nearest(mem, width, height, stride, bw, bh) ==
    [y \in 0..(bh - 1) |-> [x \in 0..(bw - 1) |->
        scalar_px(mem, src_row((y * height) \div bh, stride), (x * width) \div bw)]]

\* the buffer's pixels dst[y][x] after the copy of a width x height frame
\* with row stride `stride` into a bw x bh buffer
blit(mem, width, height, stride, bw, bh, arch) ==
    IF BlitPath(width, height, bw, bh) = "fast"
    THEN LET rows == [sy \in 0..(height - 1) |->
                         expand_row(mem, src_row(sy, stride), width, bw \div width, arch)]
         IN  [y \in 0..(bh - 1) |-> rows[y \div (bh \div height)]]
    ELSE nearest(mem, width, height, stride, bw, bh)

\* the builds: with and without the NEON loops
Archs == {"aarch64", "other"}

\* the scale factors of the buffers blitted into: those of the expanding
\* loop (1..4) and one beyond them
Scales == 1..5

\* a ^ b on naturals
RECURSIVE Xor(_, _)
Xor(a, b) ==
    IF a = 0 /\ b = 0 THEN 0
    ELSE ((a + b) % 2) + 2 * Xor(a \div 2, b \div 2)

\* the pixels of the debug test pattern in a bw x bh buffer; buf.width - 3
\* and buf.height - 3 are 32-bit differences, which wrap above every x and y
\* when the buffer is less than 3 pixels wide or high
test_pattern(bw, bh, frame_count) ==
    LET phase == (frame_count * 3) % 256
    IN  [y \in 0..(bh - 1) |-> [x \in 0..(bw - 1) |->
            IF x < 3 \/ y < 3 \/ (bw >= 3 /\ x >= bw - 3) \/ (bh >= 3 /\ y >= bh - 3)
            THEN 255 * 65536
            ELSE IF x % 64 = 0 \/ y % 32 = 0
            THEN 255 * 65536 + 255 * 256 + 255
            ELSE ((x + phase) % 256) * 65536 + ((y * 2 + phase) % 256) * 256
                 + ((Xor(x, y) + phase) % 256)]]

\* the alpha byte of source pixel (x, y) in variant av of the frame; variant
\* 0 is the frame of SrcImage
AlphaOf(x, y, av) ==
    IF av = 0 THEN SrcByte(x, y, 3) ELSE (7 * x + 3 * y + 100 * av) % 256

\* the variants of a frame's alpha channel
AlphaVariants == 0..2

\* what a byte past the end of the caller's frame may hold
JunkBytes == {0, 255}

\* the last byte offset the loops may touch: that of the frame, or, for a
\* frame without rows or without pixels, of pixel 0 of row 0
MemoryEnd(f) ==
    LET frame == f.height * f.stride
        reach == (IF f.height > 0 THEN (f.height - 1) * f.stride ELSE 0)
                 + 4 * (IF f.width > 0 THEN f.width ELSE 1)
    IN  IF frame > reach THEN frame ELSE reach

\* the memory at rgba for the call recorded in f: the caller's frame of
\* height rows of stride bytes, and after it bytes the caller does not own
Memory(f) ==
    [off \in 0..(MemoryEnd(f) - 1) |->
        IF off >= f.height * f.stride THEN f.junk
        ELSE IF off % f.stride >= f.width * 4 THEN PadByte
        ELSE IF off % 4 = 3 THEN AlphaOf((off % f.stride) \div 4, off \div f.stride, f.alpha)
        ELSE SrcByte((off % f.stride) \div 4, off \div f.stride, off % 4)]

\* the source rows the copy loops read: every row in the expanding loop,
\* src_y = (y * height) / buf.height in the other two
SampledRows(width, height, bw, bh) ==
    IF BlitPath(width, height, bw, bh) = "fast" THEN 0..(height - 1)
    ELSE { (y * height) \div bh : y \in 0..(bh - 1) }

\* the source pixels of a row the copy loops read
SampledCols(width, height, bw, bh) ==
    IF BlitPath(width, height, bw, bh) = "fast" THEN 0..(width - 1)
    ELSE { (x * width) \div bw : x \in 0..(bw - 1) }

\* the copy reads a row or a pixel the frame does not have
ReadsOutside(f) ==
    /\ ~f.pattern
    /\ \/ \E r \in SampledRows(f.width, f.height, f.bw, f.bh) : r >= f.height
       \/ \E c \in SampledCols(f.width, f.height, f.bw, f.bh) : c >= f.width

\* the buffer's pixels after the pixel stage of present for the call
\* recorded in f
present_pixels(f) ==
    IF f.pattern THEN test_pattern(f.bw, f.bh, f.frame_count)
    ELSE blit(Memory(f), f.width, f.height, f.stride, f.bw, f.bh, f.arch)

\* a call of present as far as the pixels go
BlitInput(width, height, stride, bw, bh, arch, pattern, frame_count) ==
    [width |-> width, height |-> height, stride |-> stride,
     bw |-> bw, bh |-> bh, arch |-> arch, done |-> FALSE, dst |-> << >>,
     pattern |-> pattern, frame_count |-> frame_count, alpha |-> 0, junk |-> 0,
     rows |-> {}, cols |-> {}]

\* the frames blitted: every size within the bounds, rows packed or padded,
\* into a buffer of an integer multiple of the frame's size, on either build
BlitInputs ==
    { BlitInput(width, height, width * 4 + pad, sx * width, sy * height, arch, FALSE, 0) :
          width \in 1..MaxBlitWidth, height \in 1..MaxBlitHeight,
          sx \in Scales, sy \in Scales, pad \in {0, 8}, arch \in Archs }

InitBlit ==
    /\ hw = HwFull
    /\ env = {}
    /\ d = DrmDisplayInit
    /\ k = KernelInit(hw)
    /\ g = GpuInit
    /\ calls = << >>
    /\ last = Op("none", 0, 0, 0, FALSE)
    /\ hist = HistInit
    /\ alive = TRUE
    /\ fbmem \in BlitInputs
    /\ perf_monitor = PerfInit
    /\ rdp_device = RdpDeviceInit
    /\ callback = CallbackInit
    /\ seen = NoSeen

\* the pixel stage of one present.  A read outside the caller's frame is
\* undefined: the process dies of the fault, or the read returns whatever
\* the memory there holds.
Blit ==
    /\ ~fbmem.done
    /\ \E junk \in (IF ReadsOutside(fbmem) THEN JunkBytes ELSE {0}) :
       \E fault \in (IF ReadsOutside(fbmem) THEN BOOLEAN ELSE {FALSE}) :
       \E f1 \in {[fbmem EXCEPT
                      !.junk = junk,
                      !.done = TRUE,
                      !.rows = IF fbmem.pattern THEN {}
                               ELSE SampledRows(fbmem.width, fbmem.height, fbmem.bw, fbmem.bh),
                      !.cols = IF fbmem.pattern THEN {}
                               ELSE SampledCols(fbmem.width, fbmem.height, fbmem.bw, fbmem.bh)]} :
          /\ fbmem' = IF fault THEN f1 ELSE [f1 EXCEPT !.dst = present_pixels(f1)]
          /\ alive' = ~fault
    /\ UNCHANGED <<hw, env, d, k, g, calls, last, hist,
                   perf_monitor, rdp_device, callback, seen>>

NextBlit == Blit

SpecBlit == InitBlit /\ [][NextBlit]_vars

\* the buffer sizes tried for a frame dimension n: its multiples, and two
\* sizes that are not multiples of it
DstSizes(n) == ({ sc * n : sc \in Scales } \cup {n + 1, 2 * n + 1}) \ {0}

\* the buffers the test pattern is drawn into
PatternSizes == {<<2, 2>>, <<5, 7>>, <<70, 40>>}

\* d.frame_count when the test pattern is drawn
PatternFrames == {0, 1, 85, 100}

\* every kind of call: frames without rows or without pixels, buffers that
\* are no multiple of the frame, and the test pattern
PixelInputs ==
    UNION { { BlitInput(width, height, width * 4 + pad, bw, bh, arch, FALSE, 0) :
                bw \in DstSizes(width), bh \in DstSizes(height),
                pad \in {0, 8}, arch \in Archs } :
            width \in 0..MaxBlitWidth, height \in 0..MaxBlitHeight }
    \cup
    { BlitInput(320, 240, 1280, sz[1], sz[2], "other", TRUE, fc) :
          sz \in PatternSizes, fc \in PatternFrames }

InitPixels ==
    /\ hw = HwFull
    /\ env = {}
    /\ d = DrmDisplayInit
    /\ k = KernelInit(hw)
    /\ g = GpuInit
    /\ calls = << >>
    /\ last = Op("none", 0, 0, 0, FALSE)
    /\ hist = HistInit
    /\ alive = TRUE
    /\ fbmem \in PixelInputs
    /\ perf_monitor = PerfInit
    /\ rdp_device = RdpDeviceInit
    /\ callback = CallbackInit
    /\ seen = NoSeen

SpecPixels == InitPixels /\ [][NextBlit]_vars

----------------------------------------------------------------------------
(* The stride validation of drm_display_present over the range of its     *)
(* 32-bit arguments that the checker's integers can hold (below 2^31)     *)

\* widths: small ones, and ones at and above 2^30, where width * 4 leaves
\* 32 bits
WideWidths ==
    {0, 1, 2, 320, 640, 536870911,
     1073741824, 1073741825, 1073741826, 1073742144, 1073742464, 1610612735}

\* strides: around 4 * width for the small widths, and large ones
WideStrides ==
    {0, 3, 4, 7, 8, 1279, 1280, 1344, 2559, 2560, 2147483643, 2147483644, 2147483647}

InitStride ==
    /\ hw = HwFull
    /\ env = {}
    /\ d = DrmDisplayInit
    /\ k = KernelInit(hw)
    /\ g = GpuInit
    /\ calls = << >>
    /\ \E width \in WideWidths, stride \in WideStrides :
          last = Op("arguments", width, 1, stride, FALSE)
    /\ hist = HistInit
    /\ alive = TRUE
    /\ fbmem = NoBlit
    /\ perf_monitor = PerfInit
    /\ rdp_device = RdpDeviceInit
    /\ callback = CallbackInit
    /\ seen = NoSeen

\* if (stride < min_stride) return false;
StrideCheck ==
    /\ last.op = "arguments"
    /\ last' = Op("stride_check", last.w, last.h, last.stride,
                  ~(last.stride < MinStride(last.w)))
    /\ UNCHANGED <<hw, env, d, k, g, calls, hist, alive, fbmem, perf_monitor, rdp_device, callback, seen>>

NextStride == StrideCheck

SpecStride == InitStride /\ [][NextStride]_vars

----------------------------------------------------------------------------
(* interface.cpp: perf_monitor_frame, fed with the frame samples and the    *)
(* readings of the monotonic clock                                          *)

\* frame samples handed in after a frame: <<scanout_us, render_us, flip_us,
\* total_us>> (flip_us is 0 on the CPU path)
PerfSamples == {<<300, 2000, 700, 3000>>, <<900, 1500, 0, 2400>>, <<100, 4000, 900, 5000>>}

\* by how many milliseconds the clock has moved on between two samples
ClockSteps == {0, 400, 1000, 1700}

\* the clock's reading when the first frame is over
FirstClock == 5000

\* frames sampled in one run
MaxPerfFrames == 5

\* no summary line
NoLine == [printed |-> FALSE]

\* a reset that leaves the maxima standing
PerfReset_keepsMaxima(p, now_ms) ==
    [p EXCEPT !.window_start_ms = now_ms, !.frames_in_window = 0,
              !.sum_scanout_us = 0, !.sum_render_us = 0,
              !.sum_flip_us = 0, !.sum_total_us = 0]

\* the assignments after the summary line
PerfReset(p, now_ms) ==
    [p EXCEPT !.window_start_ms = now_ms, !.frames_in_window = 0,
              !.sum_scanout_us = 0, !.sum_render_us = 0,
              !.sum_flip_us = 0, !.sum_total_us = 0,
              !.max_scanout_us = 0, !.max_render_us = 0,
              !.max_flip_us = 0, !.max_total_us = 0]

\* init_perf_monitor: G64_PERF_LOG=0 switches the monitor off; otherwise the
\* paths of the frequency files are looked up once
init_perf_monitor(p, e) ==
    IF "PERF_LOG_0" \in e THEN [p EXCEPT !.enabled = FALSE]
    ELSE IF ~p.enabled \/ p.paths_initialized THEN p
    ELSE [p EXCEPT !.paths_initialized = TRUE]

\* the sums and maxima after one more sample
PerfAccumulate(p, s) ==
    [p EXCEPT !.frames_in_window = @ + 1,
              !.sum_scanout_us = @ + s[1], !.sum_render_us = @ + s[2],
              !.sum_flip_us = @ + s[3], !.sum_total_us = @ + s[4],
              !.max_scanout_us = IF s[1] > @ THEN s[1] ELSE @,
              !.max_render_us = IF s[2] > @ THEN s[2] ELSE @,
              !.max_flip_us = IF s[3] > @ THEN s[3] ELSE @,
              !.max_total_us = IF s[4] > @ THEN s[4] ELSE @]

\* perf_monitor_frame with the clock reading now_ms: [p, line], line being
\* what the summary line is computed from when one is printed
perf_monitor_frame(p0, e, now_ms, s) ==
    IF ~p0.enabled THEN [p |-> p0, line |-> NoLine]
    ELSE \* the let-bound records follow the statements of the function
         LET p1 == IF ~p0.paths_initialized THEN init_perf_monitor(p0, e) ELSE p0
             p2 == IF p1.window_start_ms = 0
                   THEN [p1 EXCEPT !.window_start_ms = now_ms] ELSE p1
             p3 == PerfAccumulate(p2, s)
             elapsed_ms == now_ms - p3.window_start_ms
         IN  IF elapsed_ms < 1000 THEN [p |-> p3, line |-> NoLine]
             ELSE [p |-> PerfReset(p3, now_ms),
                   line |-> [printed |-> TRUE,
                             frames |-> p3.frames_in_window,
                             elapsed_ms |-> elapsed_ms,
                             sum_scanout_us |-> p3.sum_scanout_us,
                             sum_render_us |-> p3.sum_render_us,
                             sum_flip_us |-> p3.sum_flip_us,
                             sum_total_us |-> p3.sum_total_us,
                             max_total_us |-> p3.max_total_us]]

\* what has been seen of the monitor: the clock, the samples handed in since
\* the last summary line (or since the start), when that window began, the
\* line of the last call with the samples and the start of the window it
\* closed, and the number of frames so far
SeenPerf(clock, window, opened, line, closed, closed_opened, frames) ==
    [op |-> "perf", clock |-> clock, window |-> window, opened |-> opened,
     line |-> line, closed |-> closed, closed_opened |-> closed_opened,
     frames |-> frames]

InitPerf ==
    /\ hw = HwFull
    /\ env \in {{}, {"PERF_LOG_0"}}
    /\ d = DrmDisplayInit
    /\ k = KernelInit(hw)
    /\ g = GpuInit
    /\ calls = << >>
    /\ last = Op("none", 0, 0, 0, FALSE)
    /\ hist = HistInit
    /\ alive = TRUE
    /\ fbmem = NoBlit
    /\ perf_monitor = PerfInit
    /\ rdp_device = RdpDeviceInit
    /\ callback = CallbackInit
    /\ seen = SeenPerf(FirstClock, << >>, 0, NoLine, << >>, 0, 0)

\* one frame is over and its sample is handed to the monitor
PerfFrame ==
    /\ seen.frames < MaxPerfFrames
    /\ \E s \in PerfSamples, dt \in ClockSteps :
       \E now_ms \in {IF seen.frames = 0 THEN seen.clock ELSE seen.clock + dt} :
       \E r \in {perf_monitor_frame(perf_monitor, env, now_ms, s)} :
          /\ perf_monitor' = r.p
          /\ seen' = SeenPerf(now_ms,
                              IF r.line.printed THEN << >> ELSE Append(seen.window, s),
                              IF r.line.printed \/ seen.frames = 0
                              THEN now_ms ELSE seen.opened,
                              r.line,
                              IF r.line.printed THEN Append(seen.window, s) ELSE << >>,
                              IF seen.frames = 0 THEN now_ms ELSE seen.opened,
                              seen.frames + 1)
    /\ UNCHANGED <<hw, env, d, k, g, calls, last, hist, alive, fbmem, rdp_device, callback>>

NextPerf == PerfFrame

SpecPerf == InitPerf /\ [][NextPerf]_vars

----------------------------------------------------------------------------
(* interface.cpp: rdp_process_commands.  A 64-bit command word is kept as  *)
(* its command field, (w1 >> 24) & 63; cmd_data as the runs <<word, count>> *)
(* of the words buffered at indices 0 .. cmd_ptr - 1 (the words above       *)
(* cmd_ptr are never read before they are written again).                   *)

\* calls of rdp_process_commands in one run
MaxCmdCalls == 4

\* cmd_len_lut
cmd_len_lut(command) ==
    CASE command = 8 -> 4   [] command = 9 -> 6
      [] command = 10 -> 12 [] command = 11 -> 14
      [] command = 12 -> 12 [] command = 13 -> 14
      [] command = 14 -> 20 [] command = 15 -> 22
      [] command = 36 -> 2  [] command = 37 -> 2
      [] OTHER -> 1

RECURSIVE RunsLen(_)
\* the number of words in the runs rs
RunsLen(rs) == IF rs = << >> THEN 0 ELSE rs[1][2] + RunsLen(Tail(rs))

RECURSIVE WordAt(_, _)
\* the word at index i of the runs rs
WordAt(rs, i) == IF i < rs[1][2] THEN rs[1][1] ELSE WordAt(Tail(rs), i - rs[1][2])

RECURSIVE RunLeft(_, _)
\* the number of words from index i to the end of the run it lies in
RunLeft(rs, i) == IF i < rs[1][2] THEN rs[1][2] - i ELSE RunLeft(Tail(rs), i - rs[1][2])

\* x & 0x00FFFFF8
MaskDpc(x) == (x % 16777216) - (x % 8)

\* a bound one bit too wide
CmdOverflow_loose(x) == x \div 65536 # 0

\* x & ~(0x0003FFFF >> 3) for x >= 0: a bit above bit 14 is set
CmdOverflow(x) == x \div 32768 # 0

RECURSIVE process_loop(_, _, _, _)
\* the loop 'while (cmd_cur - cmd_ptr < 0)': [cmd_cur, enq, complete], enq
\* being the commands handed to enqueue_command as <<command, index>>.  A run
\* of one-word commands below 8 is so many iterations that only advance
\* cmd_cur, and is passed over in one step.
process_loop(rs, cmd_cur, cmd_ptr, enq) ==
    IF ~(cmd_cur - cmd_ptr < 0)
    THEN [cmd_cur |-> cmd_cur, enq |-> enq, complete |-> TRUE]
    ELSE LET command == WordAt(rs, cmd_cur) % 64
             cmd_length == cmd_len_lut(command)
         IN  IF cmd_ptr - cmd_cur - cmd_length < 0
             THEN [cmd_cur |-> cmd_cur, enq |-> enq, complete |-> FALSE]
             ELSE IF cmd_length = 1 /\ command < 8
             THEN process_loop(rs, cmd_cur + RunLeft(rs, cmd_cur), cmd_ptr, enq)
             ELSE process_loop(rs, cmd_cur + cmd_length, cmd_ptr,
                               IF command >= 8
                               THEN Append(enq, <<command, cmd_cur>>) ELSE enq)

\* rdp_process_commands with the registers and the memory of the call in
\* `in`: [dev, ret, enq]; ret tells which return was taken
rdp_process_commands(dev, in) ==
    LET DP_CURRENT == MaskDpc(in.current)
        DP_END     == MaskDpc(in.end)
        length     == (DP_END - DP_CURRENT) \div 8
        ptr        == dev.cmd_ptr + length
        data       == dev.cmd_data \o in.mem
        r          == process_loop(data, dev.cmd_cur, ptr, << >>)
    IN  IF DP_END - DP_CURRENT <= 0
        THEN [dev |-> dev, ret |-> "nothing", enq |-> << >>]
        ELSE IF CmdOverflow(dev.cmd_ptr + length)
        THEN [dev |-> dev, ret |-> "full", enq |-> << >>]
        ELSE IF ~in.xbus /\ (DP_END > 134217727 \/ DP_CURRENT > 134217727)
        THEN [dev |-> dev, ret |-> "range", enq |-> << >>]
        ELSE IF ~r.complete
        THEN [dev |-> [cmd_data |-> data, cmd_cur |-> r.cmd_cur, cmd_ptr |-> ptr],
              ret |-> "incomplete", enq |-> r.enq]
        ELSE [dev |-> [cmd_data |-> << >>, cmd_cur |-> 0, cmd_ptr |-> 0],
              ret |-> "done", enq |-> r.enq]

\* what the memory between DPC_CURRENT and DPC_END may hold: single commands,
\* commands cut off before their last word, the words that complete them, and
\* lists that fill the buffer to its last words
CmdChunks ==
    { << <<39, 1>> >>,
      << <<36, 1>> >>,
      << <<0, 1>> >>,
      << <<8, 1>>, <<0, 2>> >>,
      << <<39, 1>>, <<36, 1>>, <<0, 1>>, <<8, 1>> >>,
      << <<0, 32765>>, <<36, 1>> >>,
      << <<0, 32766>>, <<8, 1>> >>,
      << <<0, 32767>> >>,
      << <<0, 32768>> >> }

\* the registers and the memory of a call: DPC_CURRENT = current, DPC_END
\* past the words of mem, with low bits that the masks remove
CmdInput(current, low, xbus, mem) ==
    [current |-> current, end |-> current - (current % 8) + 8 * RunsLen(mem) + low,
     xbus |-> xbus, mem |-> mem]

\* calls with nothing to copy: DPC_END at or below DPC_CURRENT
CmdInputsEmpty ==
    { [current |-> 64, end |-> 64, xbus |-> FALSE, mem |-> << >>],
      [current |-> 64, end |-> 16, xbus |-> FALSE, mem |-> << >>],
      [current |-> 71, end |-> 64, xbus |-> TRUE, mem |-> << >>] }

CmdInputs ==
    { CmdInput(cur, low, xbus, mem) :
          cur \in {0, 4093}, low \in {0, 7}, xbus \in BOOLEAN, mem \in CmdChunks }
    \cup CmdInputsEmpty

\* what has been seen of the command buffer: the device before the last
\* call, the call's input, the return taken, the commands enqueued, and the
\* number of calls
SeenCmd(before, in, ret, enq, n) ==
    [op |-> "cmd", before |-> before, in |-> in, ret |-> ret, enq |-> enq, n |-> n]

InitCmd ==
    /\ hw = HwFull
    /\ env = {}
    /\ d = DrmDisplayInit
    /\ k = KernelInit(hw)
    /\ g = GpuInit
    /\ calls = << >>
    /\ last = Op("none", 0, 0, 0, FALSE)
    /\ hist = HistInit
    /\ alive = TRUE
    /\ fbmem = NoBlit
    /\ perf_monitor = PerfInit
    /\ rdp_device = RdpDeviceInit
    /\ callback = CallbackInit
    /\ seen = SeenCmd(RdpDeviceInit, [current |-> 0, end |-> 0, xbus |-> FALSE, mem |-> << >>],
                      "none", << >>, 0)

\* rdp_process_commands
ProcessCommands ==
    /\ seen.n < MaxCmdCalls
    /\ \E in \in CmdInputs :
       \E r \in {rdp_process_commands(rdp_device, in)} :
          /\ rdp_device' = r.dev
          /\ seen' = SeenCmd(rdp_device, in, r.ret, r.enq, seen.n + 1)
    /\ UNCHANGED <<hw, env, d, k, g, calls, last, hist, alive, fbmem, perf_monitor, callback>>

NextCmd == ProcessCommands

SpecCmd == InitCmd /\ [][NextCmd]_vars

----------------------------------------------------------------------------
(* interface.cpp: sdl_event_filter and rdp_check_callback.  The filter is   *)
(* run by SDL on the thread that pumps the events, between two calls of the *)
(* emulator, so each handler is one step.                                   *)

\* events and checks in one run
MaxCallbackSteps == 5

\* the one-shot requests of CALL_BACK
OneShots == {"save_state", "load_state", "lower_volume", "raise_volume", "frame_advance"}

\* the fields of CALL_BACK that last
Persistent == {"emu_running", "paused", "enable_speedlimiter", "save_state_slot"}

\* the keys the filter tells apart: "A" stands for every key of the default
\* case, "0", "1" and "9" for the ten digits
Scancodes ==
    {"RETURN", "F", "P", "ESCAPE", "F4", "F5", "F7", "LEFTBRACKET",
     "RIGHTBRACKET", "SLASH", "0", "1", "9", "A"}

\* SDL_SCANCODE_1 .. SDL_SCANCODE_9, SDL_SCANCODE_0 are 30 .. 39
ScancodeNumber(sc) == CASE sc = "1" -> 30 [] sc = "9" -> 38 [] sc = "0" -> 39 [] OTHER -> 0

\* sdl_event_filter, SDL_EVENT_KEY_DOWN that is no repeat: [cb, g]
key_down(cb, gs, sc, alt) ==
    CASE sc = "RETURN" ->
           [cb |-> cb, g |-> IF alt THEN [gs EXCEPT !.fullscreen = ~@] ELSE gs]
      [] sc = "F" ->
           [cb |-> IF alt THEN [cb EXCEPT !.enable_speedlimiter = ~@] ELSE cb, g |-> gs]
      [] sc = "P" ->
           [cb |-> IF alt THEN [cb EXCEPT !.paused = ~@] ELSE cb, g |-> gs]
      [] sc = "ESCAPE" ->
           [cb |-> IF gs.fullscreen THEN [cb EXCEPT !.emu_running = FALSE] ELSE cb,
            g |-> gs]
      [] sc = "F4" -> [cb |-> cb, g |-> [gs EXCEPT !.crop_letterbox = ~@]]
      [] sc = "F5" -> [cb |-> [cb EXCEPT !.save_state = TRUE], g |-> gs]
      [] sc = "F7" -> [cb |-> [cb EXCEPT !.load_state = TRUE], g |-> gs]
      [] sc = "LEFTBRACKET" -> [cb |-> [cb EXCEPT !.lower_volume = TRUE], g |-> gs]
      [] sc = "RIGHTBRACKET" -> [cb |-> [cb EXCEPT !.raise_volume = TRUE], g |-> gs]
      [] sc = "SLASH" -> [cb |-> [cb EXCEPT !.frame_advance = TRUE], g |-> gs]
      [] sc \in {"0", "1", "9"} ->
           [cb |-> IF ~alt THEN cb
                   ELSE IF sc = "0" THEN [cb EXCEPT !.save_state_slot = 0]
                   ELSE [cb EXCEPT !.save_state_slot =
                                       ScancodeNumber(sc) - ScancodeNumber("1") + 1],
            g |-> gs]
      [] OTHER -> [cb |-> cb, g |-> gs]

\* sdl_event_filter: [cb, g]
sdl_event_filter(cb, gs, ev) ==
    IF ev.type = "WINDOW_CLOSE_REQUESTED"
    THEN [cb |-> [cb EXCEPT !.paused = FALSE, !.emu_running = FALSE], g |-> gs]
    ELSE IF ev.type = "KEY_DOWN" /\ ~ev.repeat
    THEN key_down(cb, gs, ev.scancode, ev.alt)
    ELSE [cb |-> cb, g |-> gs]

\* the check with frame_advance left standing
rdp_check_callback_keepsFrameAdvance(cb) ==
    [cb |-> [cb EXCEPT !.save_state = FALSE, !.load_state = FALSE,
                       !.lower_volume = FALSE, !.raise_volume = FALSE],
     return_value |-> cb]

\* rdp_check_callback: [cb, return_value]
rdp_check_callback(cb) ==
    [cb |-> [cb EXCEPT !.save_state = FALSE, !.load_state = FALSE,
                       !.lower_volume = FALSE, !.raise_volume = FALSE,
                       !.frame_advance = FALSE],
     return_value |-> cb]

\* the events SDL hands to the filter
SdlEvents ==
    { [type |-> "WINDOW_CLOSE_REQUESTED", scancode |-> "A", alt |-> FALSE, repeat |-> FALSE] }
    \cup { [type |-> t, scancode |-> sc, alt |-> alt, repeat |-> rep] :
              t \in {"KEY_DOWN", "KEY_UP"}, sc \in Scancodes,
              alt \in BOOLEAN, rep \in BOOLEAN }

\* the request an event raises, if any: the key pressed, not the field written
Raises(ev) ==
    IF ev.type = "KEY_DOWN" /\ ~ev.repeat
    THEN CASE ev.scancode = "F5" -> {"save_state"}
           [] ev.scancode = "F7" -> {"load_state"}
           [] ev.scancode = "LEFTBRACKET" -> {"lower_volume"}
           [] ev.scancode = "RIGHTBRACKET" -> {"raise_volume"}
           [] ev.scancode = "SLASH" -> {"frame_advance"}
           [] OTHER -> {}
    ELSE {}

\* what has been seen of the callback: the last step, for every request the
\* number of checks since the key was last pressed (2: two or more, or never
\* pressed), how often the key was pressed and how often a check reported the
\* request (2: twice or more), the callback before the last check and what
\* the check returned, and the number of steps
SeenCallback(step, since, pressed, reported, before, returned, n) ==
    [op |-> "callback", step |-> step, since |-> since, pressed |-> pressed,
     reported |-> reported, before |-> before, returned |-> returned, n |-> n]

InitCallback ==
    /\ hw = HwFull
    /\ env = {}
    /\ d = DrmDisplayInit
    /\ k = KernelInit(hw)
    /\ g \in {[GpuInit EXCEPT !.fullscreen = f] : f \in BOOLEAN}
    /\ calls = << >>
    /\ last = Op("none", 0, 0, 0, FALSE)
    /\ hist = HistInit
    /\ alive = TRUE
    /\ fbmem = NoBlit
    /\ perf_monitor = PerfInit
    /\ rdp_device = RdpDeviceInit
    /\ callback = CallbackInit
    /\ seen = SeenCallback("none", [f \in OneShots |-> 2], [f \in OneShots |-> 0],
                           [f \in OneShots |-> 0], CallbackInit, CallbackInit, 0)

\* SDL runs sdl_event_filter on an event
SdlEvent ==
    /\ seen.n < MaxCallbackSteps
    /\ \E ev \in SdlEvents :
       \E r \in {sdl_event_filter(callback, g, ev)} :
          /\ callback' = r.cb
          /\ g' = r.g
          /\ seen' = SeenCallback("event",
                        [f \in OneShots |-> IF f \in Raises(ev) THEN 0 ELSE seen.since[f]],
                        [f \in OneShots |-> IF f \in Raises(ev) /\ seen.pressed[f] < 2
                                            THEN seen.pressed[f] + 1 ELSE seen.pressed[f]],
                        seen.reported, seen.before, seen.returned, seen.n + 1)
    /\ UNCHANGED <<hw, env, d, k, calls, last, hist, alive, fbmem, perf_monitor, rdp_device>>

\* the emulator calls rdp_check_callback
CheckCallback ==
    /\ seen.n < MaxCallbackSteps
    /\ \E r \in {rdp_check_callback(callback)} :
          /\ callback' = r.cb
          /\ seen' = SeenCallback("check",
                        [f \in OneShots |-> IF seen.since[f] < 2 THEN seen.since[f] + 1 ELSE 2],
                        seen.pressed,
                        [f \in OneShots |-> IF r.return_value[f] /\ seen.reported[f] < 2
                                            THEN seen.reported[f] + 1 ELSE seen.reported[f]],
                        callback, r.return_value, seen.n + 1)
    /\ UNCHANGED <<hw, env, d, k, g, calls, last, hist, alive, fbmem, perf_monitor, rdp_device>>

NextCallback == SdlEvent \/ CheckCallback

SpecCallback == InitCallback /\ [][NextCallback]_vars

----------------------------------------------------------------------------
(* Properties of drm_display_present *)

\* the pool and its bookkeeping, as the stride check must leave them
Pool(dx) ==
    <<dx.buffers, dx.buffers_ready, dx.src_width, dx.src_height,
      dx.current_buffer, dx.frame_count>>

\* C1: a present whose row stride is smaller than width*4 returns failure,
\* leaves both pool buffers, buffers_ready, the recorded source size,
\* current_buffer and frame_count unchanged, and issues no kernel call.
C1_StrideRejected ==
    [][ (last'.op = "present" /\ last'.stride < last'.w * 4)
        => /\ ~last'.ok
           /\ Pool(d') = Pool(d)
           /\ calls' = << >>
           /\ k' = k ]_vars

\* a present with an undersized stride was rejected while the pool was allocated
C1_Witness ==
    /\ last.op = "present"
    /\ last.stride < last.w * 4
    /\ ~last.ok
    /\ d.buffers_ready
    /\ d.frame_count > 0

\* C2 as stated: with N the number of successful presents since init,
\* current_buffer = N mod 2.
C2_IndexIsFramesMod2 ==
    (hist.session /\ d.buffers_ready) => d.current_buffer = hist.nOk % 2

\* C2: with N the number of successful presents since the pool was last
\* allocated (the first present after init, or the last present whose source
\* size differed from the recorded one), current_buffer = N mod 2.
C2_IndexIsFramesSinceAllocMod2 ==
    d.buffers_ready => d.current_buffer = hist.nOkAlloc % 2

\* three successful presents, the last two after a resize of the pool
C2_Witness ==
    /\ d.buffers_ready
    /\ hist.nOk = 3
    /\ hist.nOkAlloc = 2
    /\ d.current_buffer = 0


\* positions in cs of the calls named in names
Positions(cs, names) == {i \in 1..Len(cs) : cs[i].call \in names}

DestroyCalls == {"munmap", "RmFB", "DESTROY_DUMB"}

CreateCalls == {"CREATE_DUMB", "AddFB", "AddFB2", "MAP_DUMB", "mmap"}

\* cs releases everything buf holds
Releases(cs, buf) ==
    /\ buf.map # 0 => \E i \in 1..Len(cs) : cs[i].call = "munmap" /\ cs[i].arg = buf.map
    /\ buf.fb_id # 0 => \E i \in 1..Len(cs) : cs[i].call = "RmFB" /\ cs[i].arg = buf.fb_id
    /\ buf.handle # 0 =>
           \E i \in 1..Len(cs) : cs[i].call = "DESTROY_DUMB" /\ cs[i].arg = buf.handle

\* in cs both pool buffers are destroyed, then both are created at the native
\* resolution, and only then pixels are written
ResizedBeforeWrite(cs, dOld, dNew) ==
    /\ \A b \in 0..1 : Releases(cs, dOld.buffers[b])
    /\ PoolAllocated(cs)
    /\ \A b \in 0..1 : /\ dNew.buffers[b].width = dNew.display_width
                       /\ dNew.buffers[b].height = dNew.display_height
                       /\ dNew.buffers[b].map # 0
    /\ \A i \in Positions(cs, DestroyCalls), j \in Positions(cs, CreateCalls) : i < j
    /\ \A j \in Positions(cs, CreateCalls), w \in Positions(cs, {"write"}) : j < w

\* C3 as stated: a present whose (width, height) differs from the previous
\* present call destroys and recreates both pool buffers at the native
\* resolution before the frame is written; a present with the same
\* (width, height) as the previous call destroys and creates nothing.
C3_ResizeOnChangeOfPreviousCall ==
    [][ (hist.session /\ last'.op = "present" /\ hist.prev # <<0, 0>>)
        => IF <<last'.w, last'.h>> # hist.prev
           THEN ResizedBeforeWrite(calls', d, d')
           ELSE Positions(calls', DestroyCalls \cup CreateCalls) = {} ]_vars

\* C3: a present that passes the stride check while the pool is not ready or
\* while its (width, height) differs from the recorded source size releases
\* both pool buffers and then tries to create both at the native resolution;
\* it writes pixels only after both were created, and fails without writing
\* when a creation fails.  A present that passes the stride check with the
\* pool ready and the recorded source size destroys and creates nothing.
C3_ResizeOnChangeOfRecordedSize ==
    [][ (last'.op = "present" /\ last'.stride >= last'.w * 4)
        => IF ~d.buffers_ready \/ <<d.src_width, d.src_height>> # <<last'.w, last'.h>>
           THEN /\ \A b \in 0..1 : Releases(calls', d.buffers[b])
                /\ HasCall(calls', "CREATE_DUMB")
                /\ \A i \in Positions(calls', DestroyCalls),
                      j \in Positions(calls', CreateCalls) : i < j
                /\ IF PoolAllocated(calls')
                   THEN ResizedBeforeWrite(calls', d, d')
                   ELSE ~last'.ok /\ ~HasCall(calls', "write")
           ELSE Positions(calls', DestroyCalls \cup CreateCalls) = {} ]_vars

\* a successful present that replaced an allocated pool for a new source size
C3_Witness ==
    /\ last.op = "present"
    /\ last.ok
    /\ hist.nOk >= 2
    /\ CountCall(calls, "DESTROY_DUMB") = 2
    /\ PoolAllocated(calls)
    /\ HasCall(calls, "write")

\* C4: while no present has succeeded since init, a present submits with
\* drmModeSetCrtc and never with drmModePageFlip; once a present has
\* succeeded, every later present of the session submits with
\* drmModePageFlip and never with drmModeSetCrtc.
C4_ModeSetThenFlips ==
    [][ last'.op = "present"
        => /\ hist.nOk = 0 => ~HasCall(calls', "PageFlip")
           /\ hist.nOk > 0 => ~HasCall(calls', "SetCrtc")
           /\ last'.ok => HasCall(calls', IF hist.nOk = 0 THEN "SetCrtc" ELSE "PageFlip") ]_vars

\* the third successful present of a session, submitted with a page flip
C4_Witness ==
    /\ last.op = "present"
    /\ last.ok
    /\ hist.nOk = 3
    /\ HasCall(calls, "PageFlip")
    /\ ~HasCall(calls, "SetCrtc")

\* the results of the page flips in cs, in order
FlipResults(cs) ==
    LET ps == Positions(cs, {"PageFlip"})
        nth(n) == CHOOSE i \in ps : Cardinality({j \in ps : j < i}) = n - 1
    IN  [n \in 1..Cardinality(ps) |-> cs[nth(n)].res]

\* the retry discipline, with `waits` calls of drmWaitVBlank expected between
\* the rejected flip and its retry
RetryOnce(cs, ok, waits) ==
    LET fr == FlipResults(cs)
    IN  Len(fr) > 0 =>
          IF fr[1] = "EBUSY"
          THEN /\ Len(fr) = 2
               /\ CountCall(cs, "WaitVBlank") = waits
               /\ \A v \in Positions(cs, {"WaitVBlank"}) :
                      \E i, j \in Positions(cs, {"PageFlip"}) : i < v /\ v < j
               /\ ok <=> fr[2] = "ok"
          ELSE /\ Len(fr) = 1
               /\ ~HasCall(cs, "WaitVBlank")
               /\ ok <=> fr[1] = "ok"

\* C5 as stated: after a flip rejected with EBUSY, present always waits for
\* one vertical blank before its single retry.
C5_AlwaysWaitsBeforeRetry ==
    [][ (hist.session /\ last'.op = "present") => RetryOnce(calls', last'.ok, 1) ]_vars

\* C5: after a page flip rejected with EBUSY, present waits for one vertical
\* blank, or for none when G64_DRM_NO_VBLANK_SYNC disables the pacing, and
\* issues exactly one more page flip; if that one fails too, present returns
\* failure; a flip that fails for another reason is not retried.
C5_RetryOnceAfterBusy ==
    [][ last'.op = "present"
        => RetryOnce(calls', last'.ok, IF d'.debug_no_vblank_sync THEN 0 ELSE 1) ]_vars

\* a present whose flip was busy, whose wait for the vertical blank was
\* issued, and whose retry failed as well
C5_Witness ==
    /\ last.op = "present"
    /\ ~last.ok
    /\ Len(FlipResults(calls)) = 2
    /\ FlipResults(calls)[1] = "EBUSY"
    /\ FlipResults(calls)[2] # "ok"
    /\ CountCall(calls, "WaitVBlank") = 1

\* the present that ran last failed at its page flip
DroppedFrame(op, cs) == op.op = "present" /\ ~op.ok /\ HasCall(cs, "PageFlip")

\* the next present of a dropped frame's size uses the same back buffer
SameBackBuffer(hs, op, cs) ==
    (hs.dropped.valid /\ op.op = "present" /\ op.stride >= op.w * 4
       /\ op.w = hs.dropped.w /\ op.h = hs.dropped.h)
    => /\ Positions(cs, DestroyCalls \cup CreateCalls) = {}
       /\ HasCall(cs, "write") /\ LastCall(cs, "write").arg = hs.dropped.idx
       /\ alive' => (HasCall(cs, "PageFlip")
                     /\ \A i \in Positions(cs, {"PageFlip"}) : cs[i].arg = hs.dropped.fb)

\* C6 as stated: a present that fails at the submit step leaves
\* current_buffer, frame_count, buffers_ready, mode_set and the pool's
\* buffers unchanged.
C6_DropLeavesPoolUntouched ==
    [][ (hist.session /\ DroppedFrame(last', calls'))
        => /\ d'.current_buffer = d.current_buffer
           /\ d'.frame_count = d.frame_count
           /\ d'.buffers_ready = d.buffers_ready
           /\ d'.mode_set = d.mode_set
           /\ d'.buffers = d.buffers
           /\ Positions(calls', DestroyCalls \cup CreateCalls) = {} ]_vars

\* C6: a present that fails at its page flip leaves frame_count, mode_set and
\* buffers_ready unchanged; if it did not reallocate the pool it also leaves
\* current_buffer and the pool's buffers unchanged, and if it did, the pool is
\* the fresh one with current_buffer = 0.  The next present of the same
\* source size writes to and submits that same back buffer.
C6_DropKeepsBackBuffer ==
    [][ /\ DroppedFrame(last', calls')
           => /\ d'.frame_count = d.frame_count
              /\ d'.mode_set = d.mode_set
              /\ d'.buffers_ready = d.buffers_ready
              /\ IF Positions(calls', DestroyCalls \cup CreateCalls) = {}
                 THEN d'.current_buffer = d.current_buffer /\ d'.buffers = d.buffers
                 ELSE d'.current_buffer = 0 /\ PoolAllocated(calls')
        /\ SameBackBuffer(hist, last', calls') ]_vars

\* a present succeeded on the back buffer of the frame dropped just before
C6_Witness ==
    /\ last.op = "present"
    /\ last.ok
    /\ hist.recovered

\* C7: once the probe, the first drmModeDirtyFB call, has failed, no later
\* present issues drmModeDirtyFB.
C7_NoDirtyFBAfterFailedProbe ==
    [][ (hist.dirtyFailed /\ last'.op = "present") => ~HasCall(calls', "DirtyFB") ]_vars

\* a present that reached the submit step after the probe had failed
C7_Witness ==
    /\ hist.dirtyFailed
    /\ last.op = "present"
    /\ last.ok
    /\ ~HasCall(calls, "DirtyFB")
    /\ HasCall(calls, "PageFlip")

----------------------------------------------------------------------------
(* Properties of drm_display_cleanup *)

\* buf holds no mapping, framebuffer id or kernel handle
Released(buf) == buf.map = 0 /\ buf.fb_id = 0 /\ buf.handle = 0

\* C9: after cleanup, from whatever state it was called, the device handle is
\* closed (fd = -1), both pool buffers and the reserved mode-set buffer hold
\* no mapping, framebuffer id or kernel handle, and buffers_ready and
\* mode_set are false.
C9_CleanupReleasesAll ==
    last.op = "cleanup"
    => /\ d.fd = -1
       /\ ~k.open
       /\ \A b \in 0..1 : Released(d.buffers[b])
       /\ Released(d.mode_buf)
       /\ ~d.buffers_ready
       /\ ~d.mode_set

\* cleanup of a presenting session: three buffers destroyed, device closed
C9_Witness ==
    /\ last.op = "cleanup"
    /\ CountCall(calls, "DESTROY_DUMB") = 3
    /\ CountCall(calls, "munmap") = 3
    /\ HasCall(calls, "close")

----------------------------------------------------------------------------
(* Properties of the zero-copy fallback *)

\* the frame went through scanout_sync and drm_display_present, and through
\* no step of the zero-copy path
ViaCpuPipeline(op, cs) ==
    /\ HasCall(cs, "scanout_sync")
    /\ \A n \in {"scanout", "blit_image", "fence_wait"} : ~HasCall(cs, n)
    /\ (op.w # 0 /\ op.h # 0) => (HasCall(AfterScanout(cs), "write")
                                     \/ HasCall(AfterScanout(cs), "CREATE_DUMB"))

\* C8: when a step of the zero-copy import fails (dumb-buffer creation,
\* framebuffer registration, export or GPU image creation), the render_frame
\* call in which it fails and every later one of the session goes through the
\* CPU pipeline (scanout_sync, then drm_display_present), and no later
\* render_frame call of the session issues an import call again.
C8_ImportFailureIsPermanent ==
    [][ last'.op = "render"
        => /\ (hist.importFailed \/ ImportFailedIn(calls')) => ViaCpuPipeline(last', calls')
           /\ hist.importFailed => /\ ImportCalls(calls') = << >>
                                    /\ g'.failed /\ ~g'.ready ]_vars

\* a frame presented with a page flip of the CPU pipeline, in a session whose
\* import failed in an earlier render_frame
C8_Witness ==
    /\ hist.importFailed
    /\ last.op = "render"
    /\ last.ok
    /\ ~ImportFailedIn(calls)
    /\ HasCall(calls, "scanout_sync")
    /\ HasCall(calls, "write")
    /\ HasCall(calls, "PageFlip")

----------------------------------------------------------------------------
(* Properties of initialisation *)

\* a step of init failed in cs: one of `steps` returned an error
InitStepFailed(cs, steps) ==
    \E i \in 1..Len(cs) : cs[i].call \in steps /\ cs[i].res = "fail"

\* the steps whose failure makes drm_display_init return false
FatalSteps ==
    {"open", "GetResources", "connector", "crtc", "CREATE_DUMB", "AddFB2",
     "MAP_DUMB", "mmap"}

\* the session and the kernel hold nothing of the display device
InitReleased(dx, kx) ==
    /\ dx.fd = -1
    /\ ~kx.open /\ ~kx.master
    /\ Released(dx.mode_buf)
    /\ kx.handles = {} /\ kx.fbs = {} /\ kx.maps = {}

\* C10 as stated: if any step of init fails, the full mode-set against the
\* reserved buffer included, initialisation is aborted with a failure result
\* and what was acquired is released.
C10_AnyInitFailureAborts ==
    [][ (last'.op = "rdp_init" /\ InitStepFailed(calls', FatalSteps \cup {"SetCrtc"}))
        => ~last'.ok /\ InitReleased(d', k') ]_vars

\* C10: if opening the device, the resource discovery or the allocation of
\* the reserved mode-set buffer fails, drm_display_init returns failure and
\* rdp_init releases what was acquired (device handle, mastership, mode-set
\* buffer) through rdp_close; a failure of the full mode-set is not fatal:
\* initialisation goes on with the device open and the mode-set buffer
\* allocated.
C10_FatalInitFailureAborts ==
    [][ last'.op = "rdp_init"
        => /\ InitStepFailed(calls', FatalSteps)
                => ~last'.ok /\ InitReleased(d', k')
           /\ (InitStepFailed(calls', {"SetCrtc"}) /\ ~HasCall(calls', "vulkan"))
                => /\ last'.ok
                   /\ d'.fd >= 0 /\ k'.open
                   /\ d'.mode_buf.map # 0 /\ d'.mode_buf.fb_id \in k'.fbs ]_vars

\* an init that failed after the device was opened and the mode-set buffer
\* was partly created, and released both
C10_Witness ==
    /\ last.op = "rdp_init"
    /\ ~last.ok
    /\ \E i \in 1..Len(calls) : calls[i].call = "CREATE_DUMB" /\ calls[i].res = "ok"
    /\ InitStepFailed(calls, {"MAP_DUMB", "mmap"})
    /\ HasCall(calls, "DESTROY_DUMB")
    /\ HasCall(calls, "close")
    /\ InitReleased(d, k)

\* no connector of h is connected with at least one mode
NoUsableConnector(h) ==
    \A i \in 1..Len(h.connectors) :
        ~h.connectors[i].connected \/ Len(h.connectors[i].modes) = 0

\* the encoders of h with identifier id
EncodersWithId(h, id) == {e \in {h.encoders[i] : i \in 1..Len(h.encoders)} : e.id = id}

\* h has a usable connector, and neither its current encoder nor any encoder
\* it lists leads to a CRTC of h
NoUsableCrtc(h) ==
    /\ ~NoUsableConnector(h)
    /\ \E i \in 1..Len(h.connectors) :
          LET c == h.connectors[i]
          IN  /\ c.connected /\ Len(c.modes) > 0
              /\ \A j \in 1..(i - 1) :
                     ~h.connectors[j].connected \/ Len(h.connectors[j].modes) = 0
              /\ \A e \in EncodersWithId(h, c.encoder_id) : c.encoder_id = 0 \/ e.crtc_id = 0
              /\ \A n \in 1..Len(c.encoders) : \A e \in EncodersWithId(h, c.encoders[n]) :
                     \A b \in e.possible_crtcs : b >= Len(h.crtcs)

\* C11: drm_display_init returns failure when the device cannot be opened,
\* when no connector is connected with at least one mode, and when no CRTC
\* can be resolved for the chosen connector; after such an init and until the
\* next one, no mode-set buffer exists, no mode-set has been made and no
\* present succeeds.
C11_FatalDiscoveryFailsInit ==
    /\ (last.op = "init" /\ ~InitStepFailed(calls, {"open", "GetResources"}))
          => /\ NoUsableConnector(hw) => hist.initFail = "connector"
             /\ NoUsableCrtc(hw) => hist.initFail = "crtc"
    /\ hist.initFail \in {"open", "connector", "crtc"}
          => /\ ~hist.session
             /\ last.op \in {"init", "present"} => ~last.ok
             /\ Released(d.mode_buf)
             /\ ~d.mode_set
             /\ k.crtc_fb \in {0, ConsoleFb}

\* a present that got as far as its mode-set and was refused, after an init
\* that had found no CRTC
C11_Witness ==
    /\ hist.initFail = "crtc"
    /\ NoUsableCrtc(hw)
    /\ last.op = "present"
    /\ ~last.ok
    /\ HasCall(calls, "SetCrtc")

\* no plane of h can be used with the CRTC crtc_id
NoUsablePlane(h, crtc_id) ==
    \A n \in 1..Len(h.planes) : \A j \in 1..Len(h.crtcs) :
        h.crtcs[j] = crtc_id => (j - 1) \notin h.planes[n].possible_crtcs

\* the calls that put a framebuffer on the CRTC, and the plane-level update
CrtcLevelCalls == {"SetCrtc", "PageFlip"}

PlaneLevelCalls == {"SetPlane"}

\* C12: when no plane can be used with the chosen CRTC and every other step
\* of init succeeds, init succeeds with plane_id = 0, and every later present
\* of the session submits its frame with drmModeSetCrtc or drmModePageFlip
\* and issues no plane-level update.
C12_MissingPlaneIsNotFatal ==
    /\ (last.op = "init" /\ d.crtc_id # 0 /\ NoUsablePlane(hw, d.crtc_id)
           /\ ~InitStepFailed(calls, FatalSteps))
          => last.ok /\ hist.session /\ d.plane_id = 0
    /\ (hist.session /\ NoUsablePlane(hw, d.crtc_id) /\ last.op = "present")
          => /\ d.plane_id = 0
             /\ Positions(calls, PlaneLevelCalls) = {}
             /\ last.ok => Positions(calls, CrtcLevelCalls) # {}

\* the second frame of a session without a plane, submitted with a page flip
C12_Witness ==
    /\ hist.session
    /\ NoUsablePlane(hw, d.crtc_id)
    /\ d.plane_id = 0
    /\ last.op = "present"
    /\ last.ok
    /\ hist.nOk >= 2
    /\ HasCall(calls, "PageFlip")

----------------------------------------------------------------------------
(* Properties of the buffer pool *)

\* the native mode of h: the preferred mode of its first connected connector
\* with modes, or that connector's first mode if it flags none
NativeModes(h) ==
    { m \in UNION { {h.connectors[i].modes[n] : n \in 1..Len(h.connectors[i].modes)}
                    : i \in 1..Len(h.connectors) } :
        \E i \in 1..Len(h.connectors) :
          LET c == h.connectors[i]
              pref == {n \in 1..Len(c.modes) : c.modes[n].preferred}
          IN  /\ c.connected /\ Len(c.modes) > 0
              /\ \A j \in 1..(i - 1) :
                     ~h.connectors[j].connected \/ Len(h.connectors[j].modes) = 0
              /\ \E n \in 1..Len(c.modes) :
                     /\ m = c.modes[n]
                     /\ IF pref = {} THEN n = 1 ELSE n \in pref /\ \A n2 \in pref : n <= n2 }

\* a kernel call of cs was refused: any call but the damage notification and
\* the legacy AddFB that AddFB2 stands in for, or the last page flip
KernelRefused(cs) ==
    \/ \E i \in 1..Len(cs) : cs[i].call \notin {"DirtyFB", "AddFB", "PageFlip"}
                               /\ cs[i].res = "fail"
    \/ HasCall(cs, "PageFlip") /\ LastCall(cs, "PageFlip").res # "ok"

----------------------------------------------------------------------------
(* Properties of a session that follows another *)

\* the sessions a successful init gives on a freshly constructed DrmDisplay
FreshSessions ==
    { r.d : r \in { x \in drm_display_init(DrmDisplayInit, KernelInit(hw), hw, env) : x.ok } }

\* the fields init derives from the hardware or resets
Rederived(dx) ==
    <<dx.connector_id, dx.crtc_id, dx.plane_id, dx.display_width, dx.display_height,
      dx.mode_info, dx.frame_count, dx.mode_set, dx.buffers_ready>>

\* the fields neither cleanup nor init writes
Kept(dx) ==
    <<dx.dirtyfb_checked, dx.dirtyfb_supported, dx.src_width, dx.src_height,
      dx.current_buffer>>

----------------------------------------------------------------------------
(* Properties of the teardown *)

\* C16 as stated: the cleanup of a session releases the buffers, leaves the
\* CRTC with the framebuffer it showed before init, and closes the device.
C16_CleanupRestoresCrtc ==
    (last.op = "cleanup" /\ hist.ended)
    => /\ \A b \in 0..1 : Released(d.buffers[b])
       /\ Released(d.mode_buf)
       /\ d.fd = -1 /\ ~k.open
       /\ k.crtc_fb = hist.crtcBefore

----------------------------------------------------------------------------
(* Properties of the zero-copy frame *)

\* C17: in every zero-copy frame, the blit into the imported display image
\* is followed by the wait on its completion fence, and every kernel submit
\* call of drm_display_flip (mode-set or page flip) is for that image's
\* framebuffer and is issued after the wait has returned.
C17_FenceWaitedBeforeFlip ==
    (last.op = "render" /\ HasCall(calls, "blit_image"))
    => /\ CountCall(calls, "blit_image") = 1
       /\ CountCall(calls, "fence_wait") = 1
       /\ LastCall(calls, "fence_wait").arg = LastCall(calls, "blit_image").arg
       /\ \A b \in Positions(calls, {"blit_image"}),
             w \in Positions(calls, {"fence_wait"}) : b < w
       /\ Positions(calls, CrtcLevelCalls) # {}
       /\ \A f \in Positions(calls, CrtcLevelCalls) :
             /\ \E w \in Positions(calls, {"fence_wait"}) : w < f
             /\ calls[f].arg = g.bufs[LastCall(calls, "blit_image").arg].drm_fb_id
             /\ calls[f].arg # 0

\* a zero-copy frame whose page flip was queued after the fence wait
C17_Witness ==
    /\ last.op = "render"
    /\ last.ok
    /\ HasCall(calls, "blit_image")
    /\ HasCall(calls, "fence_wait")
    /\ HasCall(calls, "PageFlip")
    /\ d.frame_count >= 2

----------------------------------------------------------------------------
(* Properties of the pool while frames are scanned out *)

\* C18 as stated: when a present of a session writes pixels into
\* buffers[current_buffer], that buffer is not the one the CRTC is scanning
\* out, a queued page flip taking effect only at the next vertical blank.
\* (A present that reallocates the pool writes into a buffer made in that
\* call, which the CRTC cannot be showing.)
C18_WriteNeverHitsScanout ==
    [][ (hist.session /\ last'.op = "present" /\ HasCall(calls', "write")
           /\ Positions(calls', DestroyCalls \cup CreateCalls) = {})
        => d.buffers[LastCall(calls', "write").arg].fb_id # k.crtc_fb ]_vars

\* buf is allocated, registered and mapped
Allocated(buf, kx) ==
    /\ buf.handle \in kx.handles
    /\ buf.fb_id \in kx.fbs
    /\ buf.map \in kx.maps

C20_ReadyPoolIsWhole ==
    /\ (hist.session /\ d.buffers_ready)
          => /\ \A b \in 0..1 : Allocated(d.buffers[b], k)
             /\ d.buffers[0].width = d.buffers[1].width
             /\ d.buffers[0].height = d.buffers[1].height
    /\ (hist.session /\ last.op = "present")
          => \A i \in Positions(calls, {"write"}) : calls[i].res # "nullptr"

----------------------------------------------------------------------------
(* Properties of the session's life cycle *)

\* the state of the presentation state machine a session record is in
SessionState(dx) ==
    IF dx.mode_set THEN "Presenting"
    ELSE IF dx.fd >= 0 /\ dx.mode_buf.fb_id # 0 THEN "ModeEstablished"
    ELSE "Uninitialized"

\* C21: a successful init of an uninitialized session leads to
\* ModeEstablished, the only step into Presenting is a successful present (in
\* a session, from ModeEstablished), a successful present always ends in
\* Presenting, and a session in Presenting stays there through every later
\* present (successful, failed or resizing) and every vertical blank: only
\* cleanup leaves the state, for Uninitialized.
C21_SessionStates ==
    [][ /\ (last'.op = "init" /\ last'.ok)
           => (SessionState(d) = "Uninitialized"
               /\ SessionState(d') = "ModeEstablished")
        /\ (SessionState(d) # "Presenting" /\ SessionState(d') = "Presenting")
           => (last'.op = "present" /\ last'.ok
               /\ (hist.session => SessionState(d) = "ModeEstablished"))
        /\ (last'.op = "present" /\ last'.ok) => SessionState(d') = "Presenting"
        /\ (SessionState(d) = "Presenting" /\ last'.op # "cleanup")
           => SessionState(d') = "Presenting"
        /\ last'.op = "cleanup" => SessionState(d') = "Uninitialized" ]_vars

\* a session in Presenting after a present that threw the pool away and failed
C21_Witness ==
    /\ hist.session
    /\ hist.nOk >= 1
    /\ last.op = "present"
    /\ ~last.ok
    /\ HasCall(calls, "DESTROY_DUMB")
    /\ SessionState(d) = "Presenting"

----------------------------------------------------------------------------
(* Properties of the order of the teardown *)

\* the calls that give a buffer's resources back
ReleaseCalls == {"munmap", "RmFB", "DESTROY_DUMB", "image_reset"}

\* the calls that give the device up
DeviceCalls == {"DropMaster", "close"}

\* C22: in drm_display_cleanup and in rdp_close, every call that releases a
\* buffer's mapping, framebuffer or dumb buffer, or a zero-copy buffer's GPU
\* image, is made (and answered) while the descriptor is open and before
\* drmDropMaster, which is followed at once by close; when the teardown
\* returns the kernel holds no handle and no framebuffer of the program.
C22_BuffersReleasedBeforeClose ==
    (last.op \in {"cleanup", "rdp_close"})
    => /\ \A r \in Positions(calls, ReleaseCalls) :
             /\ calls[r].res = "ok"
             /\ \A c \in Positions(calls, DeviceCalls) : r < c
       /\ \A m \in Positions(calls, {"DropMaster"}) :
             m < Len(calls) /\ calls[m + 1].call = "close"
       /\ CountCall(calls, "close") <= 1
       /\ CountCall(calls, "close") = CountCall(calls, "DropMaster")
       /\ (k.handles = {} /\ k.fbs = {} /\ ~k.open)

\* an rdp_close that released the reserved buffer and both zero-copy buffers
\* and then closed the device
C22_Witness ==
    /\ last.op = "rdp_close"
    /\ CountCall(calls, "image_reset") = 2
    /\ CountCall(calls, "RmFB") = 3
    /\ CountCall(calls, "DESTROY_DUMB") = 3
    /\ HasCall(calls, "munmap")
    /\ HasCall(calls, "close")

----------------------------------------------------------------------------
(* Properties of destroy_dumb_buffer *)

\* the three buffers of the session
SessionBuffers(dx) == {dx.buffers[0], dx.buffers[1], dx.mode_buf}

\* what destroying buf has to call: one call per resource held, unmap first,
\* then the framebuffer, then the dumb buffer
DestroyOrder(buf) ==
    (IF buf.map # 0 THEN << Call("munmap", buf.map, "ok") >> ELSE << >>)
    \o (IF buf.fb_id # 0 THEN << Call("RmFB", buf.fb_id, "ok") >> ELSE << >>)
    \o (IF buf.handle # 0 THEN << Call("DESTROY_DUMB", buf.handle, "ok") >> ELSE << >>)

\* buf holds nothing
HoldsNothing(buf) == buf.map = 0 /\ buf.fb_id = 0 /\ buf.handle = 0

\* C23: destroying any buffer of the session (fully allocated, partially
\* allocated by a failed create, never allocated or already destroyed) unmaps,
\* then removes the framebuffer, then frees the dumb buffer, each only if held,
\* and the kernel no longer has them; destroying the result again makes no
\* call and changes neither the buffer nor the kernel.  A cleanup leaves all
\* three buffers holding nothing, and a cleanup of a session that is already
\* closed makes no release call.
C23_DestroyOrderedAndIdempotent ==
    /\ \A buf \in SessionBuffers(d) :
          \A x \in {destroy_dumb_buffer(d.fd, k, buf)} :
             /\ x.calls = DestroyOrder(buf)
             /\ HoldsNothing(x.buf)
             /\ x.k.maps = k.maps \ {buf.map}
             /\ x.k.fbs = k.fbs \ {buf.fb_id}
             /\ x.k.handles = k.handles \ {buf.handle}
             /\ \A y \in {destroy_dumb_buffer(d.fd, x.k, x.buf)} :
                   y.calls = << >> /\ y.buf = x.buf /\ y.k = x.k
    /\ last.op = "cleanup"
          => /\ \A buf \in SessionBuffers(d) : HoldsNothing(buf)
             /\ (hist.ended /\ ~HasCall(calls, "close"))
                   => Positions(calls, ReleaseCalls) = {}

\* a cleanup that found nothing left to destroy after an earlier cleanup had
\* ended a session
C23_Witness ==
    /\ last.op = "cleanup"
    /\ hist.ended
    /\ calls = << >>
    /\ \A buf \in SessionBuffers(d) : HoldsNothing(buf) /\ buf.width > 0

----------------------------------------------------------------------------
(* Properties of the resources the backend creates *)

\* the arguments of the calls of cs named name that succeeded
ArgsOf(cs, name) ==
    {cs[i].arg : i \in {j \in 1..Len(cs) : cs[j].call = name /\ cs[j].res = "ok"}}

\* the session and the zero-copy statics hold no kernel object
NothingHeld(dx, gx) ==
    /\ \A buf \in SessionBuffers(dx) : HoldsNothing(buf)
    /\ \A i \in 0..1 : gx.bufs[i] = NoGpuBuffer

\* C24: every dumb buffer, framebuffer and mapping that is live when
\* drm_display_cleanup or rdp_close is entered (whatever created it: init, a
\* reallocation, a create that failed part-way, the zero-copy import) is
\* released by a call of that teardown, which releases nothing else; when it
\* returns the kernel has none of them left and the program refers to none.
\* An rdp_init that fails has released whatever it created.
C24_NothingLeaked ==
    [][ /\ (last'.op \in {"cleanup", "rdp_close"})
           => /\ ArgsOf(calls', "DESTROY_DUMB") = k.handles
              /\ ArgsOf(calls', "RmFB") = k.fbs
              /\ ArgsOf(calls', "munmap") = k.maps
              /\ k'.handles = {} /\ k'.fbs = {} /\ k'.maps = {}
              /\ NothingHeld(d', g')
        /\ (last'.op = "rdp_init" /\ ~last'.ok)
           => /\ ArgsOf(calls', "CREATE_DUMB") \subseteq ArgsOf(calls', "DESTROY_DUMB")
              /\ ArgsOf(calls', "AddFB") \cup ArgsOf(calls', "AddFB2")
                    \subseteq ArgsOf(calls', "RmFB")
              /\ ArgsOf(calls', "mmap") \subseteq ArgsOf(calls', "munmap")
              /\ k'.handles = {} /\ k'.fbs = {} /\ k'.maps = {}
              /\ NothingHeld(d', g') ]_vars

\* an rdp_close of a session whose pool allocation had failed part-way: the
\* second pool buffer had its dumb buffer and framebuffer but no mapping
C24_Witness ==
    /\ last.op = "rdp_close"
    /\ ~HasCall(calls, "image_reset")
    /\ CountCall(calls, "munmap") = 2
    /\ CountCall(calls, "RmFB") = 3
    /\ CountCall(calls, "DESTROY_DUMB") = 3
    /\ k.maps = {}

----------------------------------------------------------------------------
(* Properties of create_dumb_buffer *)

\* the calls of cs from the i-th on, up to the next CREATE_DUMB or destroy
\* call or the end: the calls of one create_dumb_buffer
CreateRun(cs, i) ==
    LET stop == {j \in (i + 1)..Len(cs) :
                    cs[j].call \in {"CREATE_DUMB"} \cup DestroyCalls}
        e    == IF stop = {} THEN Len(cs)
                ELSE (CHOOSE j \in stop : \A j2 \in stop : j <= j2) - 1
    IN  SubSeq(cs, i, e)

\* the names and results of the calls of a create_dumb_buffer, by its outcome
CreateShapes ==
    { << <<"CREATE_DUMB", "fail">> >>,
      << <<"CREATE_DUMB", "ok">>, <<"AddFB", "fail">>, <<"AddFB2", "fail">> >>,
      << <<"CREATE_DUMB", "ok">>, <<"AddFB", "ok">>, <<"MAP_DUMB", "fail">> >>,
      << <<"CREATE_DUMB", "ok">>, <<"AddFB", "fail">>, <<"AddFB2", "ok">>,
         <<"MAP_DUMB", "fail">> >>,
      << <<"CREATE_DUMB", "ok">>, <<"AddFB", "ok">>, <<"MAP_DUMB", "ok">>,
         <<"mmap", "fail">> >>,
      << <<"CREATE_DUMB", "ok">>, <<"AddFB", "fail">>, <<"AddFB2", "ok">>,
         <<"MAP_DUMB", "ok">>, <<"mmap", "fail">> >>,
      << <<"CREATE_DUMB", "ok">>, <<"AddFB", "ok">>, <<"MAP_DUMB", "ok">>,
         <<"mmap", "ok">> >>,
      << <<"CREATE_DUMB", "ok">>, <<"AddFB", "fail">>, <<"AddFB2", "ok">>,
         <<"MAP_DUMB", "ok">>, <<"mmap", "ok">> >> }

\* the shape of the first n calls of cs
ShapeOf(cs, n) == [j \in 1..n |-> <<cs[j].call, cs[j].res>>]

\* the create whose calls are run succeeded
CreateSucceeded(run) ==
    \E j \in 1..Len(run) : run[j].call = "mmap" /\ run[j].res = "ok"

\* C25: every create_dumb_buffer of an init or a present calls drmModeAddFB
\* first and drmModeAddFB2 only after drmModeAddFB has failed; when both fail
\* nothing more is called and the operation fails; the create succeeds only
\* by a successful mmap, and the buffer it made then has a live kernel handle,
\* a registered framebuffer and a live mapping, and records which of the two
\* registration calls made the framebuffer.
C25_LegacyFirstThenExtended ==
    (last.op \in {"init", "present"})
    => /\ \A i \in Positions(calls, {"CREATE_DUMB"}) :
             \A run \in {CreateRun(calls, i)} :
                /\ \E sh \in CreateShapes :
                      Len(sh) <= Len(run) /\ ShapeOf(run, Len(sh)) = sh
                /\ ~CreateSucceeded(run) => (~last.ok /\ run[Len(run)].res = "fail")
                /\ CreateSucceeded(run)
                      => \E buf \in SessionBuffers(d) :
                            /\ buf.handle = run[1].arg
                            /\ Allocated(buf, k)
                            /\ buf.legacy_addfb = (run[2].res = "ok")
       /\ \A i \in Positions(calls, {"AddFB2"}) :
             i > 1 /\ calls[i - 1].call = "AddFB" /\ calls[i - 1].res = "fail"

\* a present that allocated its pool on a driver without the legacy call:
\* both framebuffers were registered by the extended call
C25_Witness ==
    /\ last.op = "present"
    /\ last.ok
    /\ CountCall(calls, "AddFB2") = 2
    /\ CountCall(calls, "AddFB") = 2
    /\ \A b \in 0..1 : Allocated(d.buffers[b], k) /\ ~d.buffers[b].legacy_addfb

----------------------------------------------------------------------------
(* Properties of the discovery *)

\* connector c reports connected and has a mode
UsableConnector(c) == c.connected /\ Len(c.modes) > 0

\* the n-th mode of c is the one to take: the first flagged preferred, or the
\* first of all when none is flagged
SelectedMode(c, n) ==
    IF \E n2 \in 1..Len(c.modes) : c.modes[n2].preferred
    THEN c.modes[n].preferred /\ \A n2 \in 1..(n - 1) : ~c.modes[n2].preferred
    ELSE n = 1

\* C26: whenever the session names a connector, it is the first connector in
\* enumeration order that is connected and has a mode, and display_width and
\* display_height are those of that connector's first mode flagged preferred,
\* or of its first mode when none is flagged; a session that init has
\* established names a connector, and its mode_info is that mode.
C26_FirstConnectedPreferredMode ==
    /\ hist.session => d.connector_id # 0
    /\ d.connector_id # 0
          => \E i \in 1..Len(hw.connectors) :
                /\ UsableConnector(hw.connectors[i])
                /\ \A j \in 1..(i - 1) : ~UsableConnector(hw.connectors[j])
                /\ d.connector_id = hw.connectors[i].id
                /\ \E n \in 1..Len(hw.connectors[i].modes) :
                      /\ SelectedMode(hw.connectors[i], n)
                      /\ d.display_width = hw.connectors[i].modes[n].hdisplay
                      /\ d.display_height = hw.connectors[i].modes[n].vdisplay
                      /\ hist.session => d.mode_info = hw.connectors[i].modes[n]

\* a session on the device with two connected outputs, the first of which
\* flags its second and third mode preferred
C26_Witness ==
    /\ hist.session
    /\ last.op = "init"
    /\ Len(hw.connectors) = 2
    /\ hw.connectors[2].connected
    /\ d.connector_id = hw.connectors[1].id
    /\ d.mode_info = hw.connectors[1].modes[2]
    /\ hw.connectors[1].modes[3].preferred

\* the connectors of h with identifier id
ConnectorsWithId(h, id) ==
    {c \in {h.connectors[i] : i \in 1..Len(h.connectors)} : c.id = id}

\* the CRTC attached to the current encoder of connector c, if that encoder
\* exists and has one
CurrentEncoderCrtc(h, c) ==
    {e.crtc_id : e \in {x \in EncodersWithId(h, c.encoder_id) :
                           c.encoder_id # 0 /\ x.crtc_id # 0}}

\* encoder e allows the j-th CRTC of h (from 1)
Allows(h, e, j) == j \in 1..Len(h.crtcs) /\ (j - 1) \in e.possible_crtcs

\* the lowest-index CRTC allowed by the first encoder listed by connector c
\* that allows any CRTC of h
ScannedCrtc(h, c) ==
    {h.crtcs[j] : j \in {j1 \in 1..Len(h.crtcs) :
        \E n \in 1..Len(c.encoders) : \E e \in EncodersWithId(h, c.encoders[n]) :
           /\ Allows(h, e, j1)
           /\ \A j2 \in 1..(j1 - 1) : ~Allows(h, e, j2)
           /\ \A n2 \in 1..(n - 1) : \A e2 \in EncodersWithId(h, c.encoders[n2]) :
                 \A j3 \in 1..Len(h.crtcs) : ~Allows(h, e2, j3)}}

\* the CRTC discovery has to come to for connector c, if there is one
ResolvedCrtc(h, c) ==
    IF CurrentEncoderCrtc(h, c) # {} THEN CurrentEncoderCrtc(h, c) ELSE ScannedCrtc(h, c)

\* C27: for the connector the session names, an init that got to the CRTC
\* step either fails there, exactly when neither the connector's current
\* encoder nor the scan of its encoders' compatibility masks yields a CRTC,
\* or has resolved the CRTC attached to the current encoder when there is a
\* non-zero one, and otherwise the lowest-index CRTC allowed by the first
\* listed encoder that allows any; a session that init has established has
\* that CRTC.
C27_CrtcFromEncoderOrMask ==
    \A c \in ConnectorsWithId(hw, d.connector_id) :
       /\ (last.op = "init" /\ HasCall(calls, "crtc"))
             => /\ (hist.initFail = "crtc") = (ResolvedCrtc(hw, c) = {})
                /\ (hist.initFail = "crtc") => (~last.ok /\ d.crtc_id = 0)
                /\ (hist.initFail # "crtc") => d.crtc_id \in ResolvedCrtc(hw, c)
       /\ hist.session => (d.crtc_id # 0 /\ d.crtc_id \in ResolvedCrtc(hw, c))

\* a session whose connector's current encoder has no CRTC and whose second
\* encoder allows the second and the third CRTC: the second was taken
C27_Witness ==
    /\ hist.session
    /\ last.op = "init"
    /\ Len(hw.crtcs) = 3
    /\ d.crtc_id = hw.crtcs[2]
    /\ \E c \in ConnectorsWithId(hw, d.connector_id) :
          /\ c.encoder_id # 0
          /\ CurrentEncoderCrtc(hw, c) = {}
          /\ ScannedCrtc(hw, c) = {hw.crtcs[2]}

\* the index (from 1) of CRTC crtc_id in the enumeration of h, 0 if absent
CrtcIndex(h, crtc_id) ==
    IF \E i \in 1..Len(h.crtcs) : h.crtcs[i] = crtc_id
    THEN CHOOSE i \in 1..Len(h.crtcs) :
            h.crtcs[i] = crtc_id /\ \A j \in 1..(i - 1) : h.crtcs[j] # crtc_id
    ELSE 0

\* the ids of the planes of type plane_type that can be used with crtc_id
CompatiblePlanes(h, crtc_id, plane_type) ==
    {h.planes[n].plane_id : n \in {n1 \in 1..Len(h.planes) :
        /\ CrtcIndex(h, crtc_id) # 0
        /\ (CrtcIndex(h, crtc_id) - 1) \in h.planes[n1].possible_crtcs
        /\ h.planes[n1].type = plane_type}}

\* init got as far as the plane selection
PlaneSelected ==
    \/ hist.session
    \/ last.op = "init" /\ HasCall(calls, "crtc") /\ hist.initFail # "crtc"

\* C28: once init has selected the plane, with P and O the primary and the
\* overlay planes usable with the session's CRTC: plane_id is 0 exactly when
\* P and O are both empty, and otherwise is in P \cup O; it is in P when
\* debug_use_overlay is off and P is not empty, in O when debug_use_overlay is
\* on and O is not empty, and of the other type only when the preferred type
\* is missing; plane_is_overlay is true exactly when plane_id is in O.
C28_PlaneByPreference ==
    PlaneSelected
    => \A P \in {CompatiblePlanes(hw, d.crtc_id, "primary")} :
       \A O \in {CompatiblePlanes(hw, d.crtc_id, "overlay")} :
          /\ (d.plane_id = 0) = (P = {} /\ O = {})
          /\ d.plane_id # 0 => d.plane_id \in P \cup O
          /\ (~d.debug_use_overlay /\ P # {}) => d.plane_id \in P
          /\ (d.debug_use_overlay /\ O # {}) => d.plane_id \in O
          /\ d.plane_is_overlay = (d.plane_id \in O)
          /\ d.debug_use_overlay = ("USE_OVERLAY" \in env)

\* a session that asked for an overlay plane where only a primary plane can
\* be used with its CRTC: the primary plane was taken
C28_Witness ==
    /\ hist.session
    /\ last.op = "init"
    /\ d.debug_use_overlay
    /\ CompatiblePlanes(hw, d.crtc_id, "overlay") = {}
    /\ d.plane_id \in CompatiblePlanes(hw, d.crtc_id, "primary")
    /\ ~d.plane_is_overlay

----------------------------------------------------------------------------
(* Properties of the pixel copy *)

\* the source frame of the blit recorded in f
SrcOf(f) == SrcImage(f.width, f.height, f.stride)

\* source pixel (x, y) of the blit recorded in f, converted: R, G and B moved
\* to bits 16..23, 8..15 and 0..7, the fourth byte zero
Converted(f, x, y) ==
    SrcOf(f)[y * f.stride + 4 * x] * 65536
    + SrcOf(f)[y * f.stride + 4 * x + 1] * 256
    + SrcOf(f)[y * f.stride + 4 * x + 2]

\* C29: after the blit of a width x height frame into a buffer of
\* (sx * width) x (sy * height) pixels, 1 <= sx, sy <= 4, every buffer pixel
\* of the block (sx*x .. sx*x+sx-1, sy*y .. sy*y+sy-1) equals the converted
\* source pixel (x, y), for every x < width and y < height, for every width
\* from 1 up (multiples of 8 or not), with and without the NEON loops, for
\* packed and for padded source rows.
C29_UniformBlocks ==
    fbmem.done
    => \A sx \in {fbmem.bw \div fbmem.width} : \A sy \in {fbmem.bh \div fbmem.height} :
          (/\ sx \in 1..4 /\ sy \in 1..4
           /\ fbmem.bw = sx * fbmem.width /\ fbmem.bh = sy * fbmem.height)
          => /\ DOMAIN fbmem.dst = 0..(fbmem.bh - 1)
             /\ \A y \in 0..(fbmem.height - 1) : \A x \in 0..(fbmem.width - 1) :
                \A ry \in 0..(sy - 1) : \A rx \in 0..(sx - 1) :
                   fbmem.dst[sy * y + ry][sx * x + rx] = Converted(fbmem, x, y)

\* a x2 / x3 blit through the NEON loop and its scalar tail: 17 pixels wide
C29_Witness ==
    /\ fbmem.done
    /\ fbmem.arch = "aarch64"
    /\ fbmem.width = 17 /\ fbmem.height = 2
    /\ fbmem.bw = 34 /\ fbmem.bh = 6
    /\ fbmem.stride > fbmem.width * 4
    /\ fbmem.dst[5][33] = Converted(fbmem, 16, 1)
    /\ fbmem.dst[3][32] = Converted(fbmem, 16, 1)
    /\ fbmem.dst[2][31] = Converted(fbmem, 15, 0)

\* C30: after a blit whose buffer has the frame's size, buffer pixel (x, y)
\* is (R << 16) | (G << 8) | B of source pixel (x, y), whose bytes R, G, B, A
\* are read at y * stride + 4 * x of the frame: the fourth byte is zero
\* whatever A is, and the rows are stride bytes apart also when stride
\* exceeds width * 4.
C30_ExactRatioReordersChannels ==
    (fbmem.done /\ fbmem.bw = fbmem.width /\ fbmem.bh = fbmem.height)
    => \A y \in 0..(fbmem.height - 1) : \A x \in 0..(fbmem.width - 1) :
          /\ fbmem.dst[y][x]
               = SrcByte(x, y, 0) * 65536 + SrcByte(x, y, 1) * 256 + SrcByte(x, y, 2)
          /\ fbmem.dst[y][x] < 16777216
          /\ SrcOf(fbmem)[y * fbmem.stride + 4 * x + 3] = SrcByte(x, y, 3)
          /\ SrcByte(x, y, 3) # 0
          /\ fbmem.dst[y][x] % 256 = SrcOf(fbmem)[y * fbmem.stride + 4 * x + 2]
          /\ (fbmem.dst[y][x] \div 256) % 256 = SrcOf(fbmem)[y * fbmem.stride + 4 * x + 1]
          /\ fbmem.dst[y][x] \div 65536 = SrcOf(fbmem)[y * fbmem.stride + 4 * x]

\* a 1:1 blit of a two-row frame with padded rows
C30_Witness ==
    /\ fbmem.done
    /\ fbmem.bw = fbmem.width /\ fbmem.bh = fbmem.height
    /\ fbmem.width = 9 /\ fbmem.height = 2
    /\ fbmem.stride = fbmem.width * 4 + 8
    /\ fbmem.dst[1][8] = SrcByte(8, 1, 0) * 65536 + SrcByte(8, 1, 1) * 256 + SrcByte(8, 1, 2)
    /\ fbmem.dst[1][0] # fbmem.dst[0][0]

\* the output of the generic nearest-neighbour loop on the input of the blit
\* recorded in f
GenericOutput(f) == nearest(SrcOf(f), f.width, f.height, f.stride, f.bw, f.bh)

\* C31: whenever the expanding loop applies (the buffer's width and height are
\* multiples 1..4 of the frame's), the buffer it leaves equals, pixel for
\* pixel, what the generic loop (src_y = y * height / buf.height, src_x =
\* x * width / buf.width) writes for the same frame and buffer, on both
\* builds.
C31_FastEqualsGeneric ==
    (fbmem.done /\ BlitPath(fbmem.width, fbmem.height, fbmem.bw, fbmem.bh) = "fast")
    => fbmem.dst = GenericOutput(fbmem)

\* a x4 / x2 blit of a 9-pixel-wide frame through the NEON loop and its tail
C31_Witness ==
    /\ fbmem.done
    /\ BlitPath(fbmem.width, fbmem.height, fbmem.bw, fbmem.bh) = "fast"
    /\ fbmem.arch = "aarch64"
    /\ fbmem.width = 9 /\ fbmem.height = 2
    /\ fbmem.bw = 36 /\ fbmem.bh = 4
    /\ fbmem.dst = GenericOutput(fbmem)
    /\ fbmem.dst[3][35] # fbmem.dst[0][0]

\* the pixel stage has run to its end
Copied ==
    fbmem.done /\ alive

\* C32: whichever loop fills the buffer (the expanding loop at 1:1 or at a
\* larger scale, the nearest-neighbour loops, the test pattern), every pixel
\* written has its fourth byte zero, and the buffer is the same for every
\* frame that differs from the one presented in its alpha bytes only.
C32_AlphaNeverReachesBuffer ==
    Copied
    => /\ \A y \in DOMAIN fbmem.dst : \A x \in DOMAIN fbmem.dst[y] :
             fbmem.dst[y][x] \in 0..16777215
       /\ \A av \in AlphaVariants :
             /\ (av # 0 /\ fbmem.width > 0 /\ fbmem.height > 0)
                => Memory([fbmem EXCEPT !.alpha = av])[3] # Memory(fbmem)[3]
             /\ present_pixels([fbmem EXCEPT !.alpha = av]) = fbmem.dst

\* a frame of 3 x 2 pixels with alpha 254 and 255 copied by the generic loop
\* into a buffer of 7 x 5
C32_Witness ==
    /\ Copied
    /\ ~fbmem.pattern
    /\ fbmem.width = 3 /\ fbmem.height = 2 /\ fbmem.bw = 7 /\ fbmem.bh = 5
    /\ BlitPath(fbmem.width, fbmem.height, fbmem.bw, fbmem.bh) = "generic"
    /\ Memory(fbmem)[3] = 255 /\ Memory([fbmem EXCEPT !.alpha = 1])[3] = 100
    /\ fbmem.dst[4][6] = Converted(fbmem, 2, 1)
    /\ fbmem.dst[4][6] < 16777216

C33_ReadsInsideNonEmptyFrame ==
    (fbmem.done /\ ~fbmem.pattern /\ fbmem.stride >= MinStride(fbmem.width)
     /\ fbmem.width > 0 /\ fbmem.height > 0)
    => /\ \A r \in fbmem.rows : r < fbmem.height
       /\ \A c \in fbmem.cols : c < fbmem.width
       /\ fbmem.rows # {} /\ fbmem.cols # {}
       /\ alive

----------------------------------------------------------------------------
(* Properties of the stride validation *)

C34_StrideCheckExactBelowWrap ==
    (last.op = "stride_check" /\ last.w < 1073741824)
    => (~last.ok <=> last.stride \div 4 < last.w)

----------------------------------------------------------------------------
(* Properties of perf_monitor_frame *)

RECURSIVE SumOf(_, _)
\* the total of component i of the samples ss
SumOf(ss, i) == IF ss = << >> THEN 0 ELSE ss[1][i] + SumOf(Tail(ss), i)

\* the largest of component i of the samples ss (0 for none)
MaxOf(ss, i) ==
    IF ss = << >> THEN 0
    ELSE CHOOSE m \in {ss[j][i] : j \in 1..Len(ss)} : \A j \in 1..Len(ss) : ss[j][i] <= m

\* the monitor's sums and maxima are those of the samples ss
Summarises(p, ss) ==
    /\ p.frames_in_window = Len(ss)
    /\ p.sum_scanout_us = SumOf(ss, 1) /\ p.sum_render_us = SumOf(ss, 2)
    /\ p.sum_flip_us = SumOf(ss, 3) /\ p.sum_total_us = SumOf(ss, 4)
    /\ p.max_scanout_us = MaxOf(ss, 1) /\ p.max_render_us = MaxOf(ss, 2)
    /\ p.max_flip_us = MaxOf(ss, 3) /\ p.max_total_us = MaxOf(ss, 4)

\* C35: a summary line is printed only by a sample that arrives 1000 ms or
\* more after the start of its window (the first sample, or the previous
\* line), for a window of at least one frame; right after it the frame count,
\* the four sums and the four maxima are zero and the window starts at the
\* time of the line; and as long as the monitor is on, each sum is the total
\* and each maximum the largest of the samples handed in since the window
\* began.
C35_WindowResetAfterEmission ==
    seen.op = "perf"
    => /\ seen.line.printed
          => /\ seen.clock - seen.closed_opened >= 1000
             /\ seen.line.elapsed_ms = seen.clock - seen.closed_opened
             /\ seen.line.frames >= 1
             /\ seen.line.frames = Len(seen.closed)
             /\ seen.line.sum_total_us = SumOf(seen.closed, 4)
             /\ seen.line.max_total_us = MaxOf(seen.closed, 4)
             /\ Summarises(perf_monitor, << >>)
             /\ perf_monitor.window_start_ms = seen.clock
       /\ (perf_monitor.enabled /\ seen.frames > 0)
          => /\ Summarises(perf_monitor, seen.window)
             /\ perf_monitor.window_start_ms = seen.opened
       /\ (~seen.line.printed /\ perf_monitor.enabled /\ seen.frames > 0)
          => seen.clock - seen.opened < 1000

\* a line for a window of three frames, after an earlier line
C35_Witness ==
    /\ seen.op = "perf"
    /\ seen.line.printed
    /\ seen.line.frames = 3
    /\ seen.frames = 5
    /\ seen.line.max_total_us = 5000
    /\ perf_monitor.max_total_us = 0
    /\ perf_monitor.window_start_ms = seen.clock

----------------------------------------------------------------------------
(* Properties of the messages of recoverable failures *)

\* the last operation was a present whose page flip failed for good
FlipFailedNow ==
    /\ last.op = "present" /\ ~last.ok
    /\ HasCall(calls, "PageFlip")
    /\ LastCall(calls, "PageFlip").res # "ok"

----------------------------------------------------------------------------
(* Properties of rdp_process_commands *)

\* the 64-bit words the call recorded in seen was to copy
CmdLength == (MaskDpc(seen.in.end) - MaskDpc(seen.in.current)) \div 8

\* the command at the read cursor of device dev is cut off
CutOff(dev) ==
    /\ dev.cmd_cur < dev.cmd_ptr
    /\ cmd_len_lut(WordAt(dev.cmd_data, dev.cmd_cur) % 64) > dev.cmd_ptr - dev.cmd_cur

\* C37: after every return of rdp_process_commands 0 <= cmd_cur <= cmd_ptr
\* <= 0x7FFF, so that the indices 2 * cmd_ptr and 2 * cmd_ptr + 1 lie in the
\* 65536 words of cmd_data; a call that would take cmd_ptr past the bound
\* copies nothing; when every buffered command was complete both cursors are
\* 0; when the last one is cut off, the words buffered before and the copied
\* ones are kept with the write cursor after them and the read cursor on the
\* cut-off command, and the command is handed on, from that index, by the
\* call that copies its remaining words.
C37_CommandCursorsBounded ==
    seen.op = "cmd"
    => /\ 0 <= rdp_device.cmd_cur /\ rdp_device.cmd_cur <= rdp_device.cmd_ptr
       /\ rdp_device.cmd_ptr <= 32767
       /\ 2 * rdp_device.cmd_ptr + 1 < 65536
       /\ RunsLen(rdp_device.cmd_data) = rdp_device.cmd_ptr
       /\ (CmdLength > 0 /\ seen.before.cmd_ptr + CmdLength > 32767)
          => (seen.ret = "full" /\ rdp_device = seen.before)
       /\ seen.ret \in {"nothing", "full", "range"} => rdp_device = seen.before
       /\ seen.ret = "done"
          => (rdp_device.cmd_cur = 0 /\ rdp_device.cmd_ptr = 0)
       /\ seen.ret = "incomplete"
          => /\ rdp_device.cmd_data = seen.before.cmd_data \o seen.in.mem
             /\ rdp_device.cmd_ptr = seen.before.cmd_ptr + CmdLength
             /\ rdp_device.cmd_cur >= seen.before.cmd_cur
             /\ CutOff(rdp_device)
       /\ (rdp_device.cmd_cur < rdp_device.cmd_ptr) => CutOff(rdp_device)
       /\ (seen.ret \in {"done", "incomplete"} /\ CutOff(seen.before))
          => \A c \in {WordAt(seen.before.cmd_data, seen.before.cmd_cur) % 64} :
                IF seen.before.cmd_ptr + CmdLength - seen.before.cmd_cur >= cmd_len_lut(c)
                THEN c >= 8 => (seen.enq # << >>
                                /\ seen.enq[1] = <<c, seen.before.cmd_cur>>)
                ELSE seen.ret = "incomplete" /\ seen.enq = << >>
                     /\ rdp_device.cmd_cur = seen.before.cmd_cur

\* a triangle cut off twice, at index 1 behind a complete command, is handed
\* on by the third call, which empties the buffer
C37_Witness ==
    /\ seen.op = "cmd"
    /\ seen.ret = "done"
    /\ CutOff(seen.before)
    /\ seen.before.cmd_cur > 0
    /\ WordAt(seen.before.cmd_data, seen.before.cmd_cur) = 8
    /\ seen.enq[1] = <<8, seen.before.cmd_cur>>
    /\ rdp_device.cmd_cur = 0 /\ rdp_device.cmd_ptr = 0

----------------------------------------------------------------------------
(* Properties of rdp_check_callback *)

\* C38: a check reports a one-shot request (save_state, load_state,
\* lower_volume, raise_volume, frame_advance) as true exactly when it is the
\* first check since the request's key was last pressed: the first check after
\* the key reports it, every later one reports false until the key is pressed
\* again; and the check returns emu_running, paused, enable_speedlimiter and
\* save_state_slot as they were and leaves them as they were.  No request is
\* reported more often than its key was pressed.
C38_OneShotReportedOnce ==
    (seen.op = "callback" /\ seen.step = "check")
    => /\ \A f \in OneShots : seen.returned[f] <=> (seen.since[f] = 1)
       /\ \A f \in OneShots : seen.reported[f] <= seen.pressed[f]
       /\ \A p \in Persistent :
             /\ seen.returned[p] = seen.before[p]
             /\ callback[p] = seen.before[p]

\* the slash key is pressed again after an earlier press was reported, with
\* the speed limiter switched off: the check reports frame_advance a second
\* time, clears it, and leaves the lasting fields alone
C38_Witness ==
    /\ seen.op = "callback" /\ seen.step = "check"
    /\ seen.pressed["frame_advance"] = 2
    /\ seen.reported["frame_advance"] = 2
    /\ seen.returned.frame_advance
    /\ ~callback.frame_advance
    /\ ~seen.returned.enable_speedlimiter /\ ~callback.enable_speedlimiter

====
